---- MODULE Spec2Model ----
(***************************************************************************)
(* BeamState monitoring runtime: the MonitorManager control loop and its   *)
(* per-node reachability state machine (backend/monitor_manager.py), the   *)
(* MetricProcessor threshold evaluator (backend/metrics_processor.py) and  *)
(* the operator handlers that pause / resume nodes                         *)
(* (backend/routers/config.py).                                            *)
(*                                                                         *)
(* Time is time.time() in whole seconds.  A coroutine is cut at its await  *)
(* points: everything between two awaits is one action.                    *)
(***************************************************************************)
EXTENDS Integers, FiniteSets, Sequences, TLC

(***************************************************************************)
(* Bounds of the model.                                                    *)
(***************************************************************************)
StartTime == 100       \* time.time() when the loop starts; exceeds every interval
MaxTime == 4           \* seconds explored after StartTime (main specification)
MaxDownTasks == 1      \* _send_down_alert tasks pending per node
GroupInterval == 4     \* GroupDB.interval of the group in the inventory
NodeInterval == 3      \* NodeDB.interval override
GroupMaxRetries == 1   \* GroupDB.max_retries
NodeMaxRetries == 2    \* NodeDB.max_retries override (besides 0)
\* The permits of the limiter: Semaphore(32) in the source, scaled down so that the
\* inventory of NodeIds exceeds it.
SemaphoreLimit == 2

NodeIds == {"n1", "n2", "n3"}
MetricIds == {"m1", "m2"}
\* The inventory of the single-node specifications.
SingleNode == {"n1"}
SingleMetric == {"m1"}

\* An Optional[...] column is a sequence: << >> is None, <<v>> is the value v.
None == << >>
Some(v) == <<v>>
IsNone(o) == Len(o) = 0
OrElse(o, d) == IF Len(o) > 0 THEN o[1] ELSE d

\* dict.get(key, default)
Get(f, k, d) == IF k \in DOMAIN f THEN f[k] ELSE d
\* dict[key] = value
Put(f, k, v) == [x \in (DOMAIN f) \cup {k} |-> IF x = k THEN v ELSE f[x]]
\* dict.pop(key, None) / del dict[key]
Del(f, k) == [x \in (DOMAIN f) \ {k} |-> f[x]]

VARIABLES
    now,                   \* time.time()
    db_nodes,              \* NodeDB rows by id
    db_group,              \* the GroupDB row the nodes belong to
    db_metrics,            \* NodeMetricDB rows by id
    pushover_config,       \* storage.config["pushover"]
    last_ping_time,        \* MonitorManager.last_ping_time
    latest_results,        \* MonitorManager.latest_results
    node_states,           \* MonitorManager.node_states
    alert_states,          \* MetricProcessor.alert_states (and its JSON file)
    notification_cooldown, \* MetricProcessor.notification_cooldown
    state_lock,            \* MetricProcessor.state_lock: the _check_thresholds call holding it
    tasks,                 \* process_node coroutines of the current tick
    down_tasks,            \* _send_down_alert tasks created and not yet run
    lastTick,              \* what the most recent process_node step did
    alert_history,         \* MonitorManager.alert_history
    last_storm_alert_time, \* MonitorManager.last_storm_alert_time
    pushover_sent,         \* PushoverClient.send_notification calls so far
    sample_no,             \* samples of a scripted series handed to process_metric so far
    previous_values,       \* MetricProcessor.previous_values
    metric_result,         \* what the latest process_metric call on a counter produced
    storage_config,        \* Storage.config: its influxdb and logging sections
    use_influx,            \* Storage.use_influx
    config_file,           \* config.json as it is on disk
    running,               \* MonitorManager.running
    loop_task,             \* the run_loop task: "running" or "done"
    pushover_ok,           \* whether the Pushover API accepts a notification now
    storage_ok,            \* whether the InfluxDB and log file writes succeed now
    log_file,              \* the lines of the log file
    file_lock,             \* Storage._file_lock: the write_monitor_result call holding it
    writers,               \* write_monitor_result calls in progress
    lock_order             \* the entries whose call acquired Storage._file_lock, in order

dbVars == <<db_nodes, db_group, db_metrics, pushover_config>>
mgrVars == <<last_ping_time, latest_results, node_states>>
procVars == <<alert_states, notification_cooldown, state_lock>>
alertVars == <<alert_history, last_storm_alert_time, pushover_sent>>
rateVars == <<previous_values, metric_result>>
storageVars == <<storage_config, use_influx, config_file>>
loopVars == <<running, loop_task>>
sinkVars == <<pushover_ok, storage_ok>>
logVars == <<log_file, file_lock, writers, lock_order>>

vars == <<now, dbVars, mgrVars, procVars, tasks, down_tasks, lastTick, alertVars, sample_no, rateVars, storageVars, loopVars, sinkVars, logVars>>

(***************************************************************************)
(* Inventory                                                               *)
(***************************************************************************)
\* node.interval if node.interval is not None else node.group.interval
IntervalOf(node, group) == OrElse(node.interval, group.interval)
\* node.max_retries if node.max_retries is not None else node.group.max_retries
MaxRetriesOf(node, group) == OrElse(node.max_retries, group.max_retries)
\* node.monitor_ping if node.monitor_ping is not None else node.group.monitor_ping
UsePing(node, group) == OrElse(node.monitor_ping, group.monitor_ping)
UseSnmp(node, group) == OrElse(node.monitor_snmp, group.monitor_snmp)
\* not node.enabled or not node.group.enabled
IsDisabled(node, group) == ~node.enabled \/ ~group.enabled

\* node.node_metrics
NodeMetrics(n) == {m \in DOMAIN db_metrics : db_metrics[m].node_id = n}

(***************************************************************************)
(* MonitorManager helpers                                                  *)
(***************************************************************************)
NewNodeState == [status |-> "UP", failure_count |-> 0, first_failure_time |-> 0]

\* get_node_state: setdefault of the UP state
GetNodeState(states, n) == IF n \in DOMAIN states THEN states ELSE Put(states, n, NewNodeState)

\* effective_interval, times three (interval / 3 is a true division in the source)
EffectiveIntervalFloor3(interval, status) ==
    IF status = "PENDING" THEN 3 * (interval \div 3) ELSE 3 * interval

EffectiveInterval3(interval, status) ==
    IF status = "PENDING" THEN interval ELSE 3 * interval

\* not (now - last < effective_interval)
IsDue(t, last, interval, status) == ~(3 * (t - last) < EffectiveInterval3(interval, status))

\* get_node_alert_status
GetNodeAlertStatus(n) ==
    LET levels == {Get(alert_states, m, "null") : m \in NodeMetrics(n)}
    IN  IF "CRITICAL" \in levels THEN "DOWN"
        ELSE IF "WARNING" \in levels THEN "PENDING"
        ELSE "UP"

\* The latest_results entry of a node: status and protocol mask (name, ip, latency,
\* packet_loss and timestamp are carried along by the source and not modelled).
PausedResult == [status |-> "PAUSED", monitor_ping |-> FALSE, monitor_snmp |-> FALSE]

\* A process_node coroutine of the current run_loop iteration; old holds the node's
\* coroutine of an earlier iteration that gather() abandoned, if there is one.
NoTask == [pc |-> "none", node |-> << >>, group |-> << >>, now |-> 0,
           current_status |-> "", detached |-> << >>, old |-> << >>]

\* lastTick records the outcome of the most recent process_node step: which node,
\* how it returned, the aggregated probe result, whether a DOWN alert was created, the
\* records handed to storage.write_monitor_result and the ICMP bindings handed to
\* process_metric.
NoTick == [node |-> "", outcome |-> "none", success |-> FALSE, enqueued |-> FALSE,
           written |-> {}, stored |-> {}, processed |-> << >>]

(***************************************************************************)
(* Reachability state machine: process_node, "Update state based on        *)
(* aggregated result".  state is the node's dict in node_states (read at   *)
(* completion), current_status the status read before the probes ran.      *)
(***************************************************************************)
\* A variant that marks the node DOWN as soon as the retry budget is used up
\* (failure_count >= max_retries) instead of exceeded.
ApplyResultGe(state, current_status, overall_success, metric_status, max_retries, t) ==
    IF overall_success
    THEN [state |-> [status |-> metric_status, failure_count |-> 0, first_failure_time |-> 0],
          alert |-> FALSE]
    ELSE IF current_status = "UP"
    THEN [state |-> [status |-> "PENDING", failure_count |-> 1, first_failure_time |-> t],
          alert |-> FALSE]
    ELSE IF current_status = "PENDING"
    THEN LET fc == state.failure_count + 1
         IN  [state |-> [state EXCEPT !.failure_count = fc,
                                      !.status = IF fc >= max_retries THEN "DOWN" ELSE "PENDING"],
              alert |-> fc >= max_retries]
    ELSE [state |-> [state EXCEPT !.status = current_status], alert |-> FALSE]

\* A variant that applies the retry budget already to the first failure.
ApplyResultEager(state, current_status, overall_success, metric_status, max_retries, t) ==
    IF overall_success
    THEN [state |-> [status |-> metric_status, failure_count |-> 0, first_failure_time |-> 0],
          alert |-> FALSE]
    ELSE IF current_status \in {"UP", "PENDING"}
    THEN LET fc == state.failure_count + 1
         IN  [state |-> [status |-> IF fc > max_retries THEN "DOWN" ELSE "PENDING",
                         failure_count |-> fc,
                         first_failure_time |-> IF current_status = "UP" THEN t
                                                ELSE state.first_failure_time],
              alert |-> fc > max_retries]
    ELSE [state |-> [state EXCEPT !.status = current_status], alert |-> FALSE]

ApplyResult(state, current_status, overall_success, metric_status, max_retries, t) ==
    IF overall_success
    THEN \* new_status = "UP", overridden by the metric alert status
         [state |-> [status |-> IF metric_status = "DOWN" THEN "DOWN"
                                ELSE IF metric_status = "PENDING" THEN "PENDING"
                                ELSE "UP",
                     failure_count |-> 0,
                     first_failure_time |-> 0],
          alert |-> FALSE]
    ELSE IF current_status = "UP"
    THEN [state |-> [status |-> "PENDING", failure_count |-> 1, first_failure_time |-> t],
          alert |-> FALSE]
    ELSE IF current_status = "PENDING"
    THEN LET fc == state.failure_count + 1
         IN  [state |-> [state EXCEPT !.failure_count = fc,
                                      !.status = IF fc > max_retries THEN "DOWN" ELSE "PENDING"],
              alert |-> fc > max_retries]
    ELSE \* DOWN stays DOWN; any other status is written back unchanged
         [state |-> [state EXCEPT !.status = current_status], alert |-> FALSE]

\* node.node_metrics with metric_source "icmp"
IcmpMetrics(n) == {m \in NodeMetrics(n) : db_metrics[m].metric_source = "icmp"}

\* "Process generic metrics for alerting (ICMP)": the first process_metric call rebinds
\* `result`, and reading result.latency_ms / result.raw_data for the second ICMP binding
\* raises AttributeError out of process_node.
IcmpMetricsRaise(n, node, group, ping_ok) ==
    UsePing(node, group) /\ ping_ok /\ Cardinality(IcmpMetrics(n)) >= 2

\* The binding the ICMP metric loop reaches first.
FirstIcmp(n) == CHOOSE m \in IcmpMetrics(n) : TRUE

\* A variant of write_monitor_result that lets the exception of a failing sink out.
WriteRaisesOnFailure == ~storage_ok

\* write_monitor_result logs the exception of a failing sink (InfluxDB write, append to
\* the log file) and returns: nothing is raised into process_node.
WriteRaises == FALSE

\* "Write to Storage": the status of the record of one monitor result
RecordStatus(new_status, success) ==
    IF new_status = "PENDING" THEN "PENDING" ELSE IF success THEN "UP" ELSE "DOWN"

\* The monitor results whose record is written: the loop writes the ICMP result first
\* and does not get to the next result when the ICMP metric loop raises.
WrittenResults(results, raises) ==
    IF raises THEN {r \in results : r.protocol = "icmp"} ELSE results

\* The ICMP bindings handed to process_metric, in order: none unless the ICMP result
\* succeeded, and the first one only when the loop raises at the second.
ProcessedIcmp(n, icmp_ok) ==
    IF ~icmp_ok \/ IcmpMetrics(n) = {} THEN << >> ELSE <<FirstIcmp(n)>>

\* process_node from "Aggregate results" to "Store latest result"
CompleteProbe(n, tk, states, probed, overall_success, results) ==
    LET node == tk.node[1]
        group == tk.group[1]
        icmp_ok == \E res \in results : res.protocol = "icmp" /\ res.success
        raises == IcmpMetricsRaise(n, node, group, icmp_ok)
        \* state is the dict get_node_state returned: the entry of node_states, or the
        \* dict remove_node popped from it while the monitors ran
        attached == IsNone(tk.detached)
        state == IF attached THEN states[n] ELSE tk.detached[1]
        r == ApplyResult(state, tk.current_status, overall_success,
                         GetNodeAlertStatus(n), MaxRetriesOf(node, group), tk.now)
        \* the records handed to write_monitor_result, and those a sink took
        written == {[protocol |-> res.protocol,
                     status |-> RecordStatus(r.state.status, res.success)] :
                        res \in WrittenResults(results, raises)}
    IN  /\ node_states' = IF attached THEN [states EXCEPT ![n] = r.state] ELSE states
        /\ latest_results' = Put(latest_results, n,
                                 [status |-> r.state.status,
                                  monitor_ping |-> UsePing(node, group),
                                  monitor_snmp |-> UseSnmp(node, group)])
        /\ down_tasks' = IF r.alert THEN [down_tasks EXCEPT ![n] = @ + 1] ELSE down_tasks
        /\ (r.alert => down_tasks[n] < MaxDownTasks)
        /\ lastTick' = [node |-> n,
                        outcome |-> IF probed THEN "probed" ELSE "no_probe",
                        success |-> overall_success,
                        enqueued |-> r.alert,
                        written |-> written,
                        stored |-> IF storage_ok THEN written ELSE {},
                        processed |-> ProcessedIcmp(n, icmp_ok)]

\* A process_node step that returns early.
EarlyReturn(n, outcome) ==
    lastTick' = [NoTick EXCEPT !.node = n, !.outcome = outcome]

(***************************************************************************)
(* run_loop: one iteration snapshots the inventory and creates one         *)
(* process_node coroutine per node; the next iteration starts when all of  *)
(* them have returned.                                                     *)
(***************************************************************************)
\* A variant of the loop condition: while True.
LoopConditionIgnored == TRUE

\* while self.running
LoopCondition == running

StartTick ==
    /\ loop_task = "running"
    /\ LoopCondition
    /\ \A n \in NodeIds : tasks[n].pc = "none"
    /\ DOMAIN db_nodes # {}
    /\ tasks' = [n \in NodeIds |->
                    IF n \in DOMAIN db_nodes
                    THEN [NoTask EXCEPT !.pc = "created", !.node = Some(db_nodes[n]),
                                        !.group = Some(db_group), !.old = tasks[n].old]
                    ELSE tasks[n]]
    /\ UNCHANGED <<alertVars, sample_no, rateVars, storageVars, loopVars, sinkVars, logVars, now, dbVars, mgrVars, procVars, down_tasks, lastTick>>

\* The coroutine of node n in a slot: "cur" (created by the running iteration) or "old".
Load(n, slot) ==
    IF slot = "cur" THEN tasks[n]
    ELSE IF tasks[n].old = << >> THEN NoTask ELSE tasks[n].old[1]

Store(n, slot, tk) ==
    IF slot = "cur" THEN [tasks EXCEPT ![n] = [tk EXCEPT !.old = tasks[n].old]]
    ELSE [tasks EXCEPT ![n].old = IF tk.pc = "none" THEN << >> ELSE <<tk>>]

\* Coroutines inside process_node: each holds the semaphore.
InFlight ==
    Cardinality({n \in NodeIds : Load(n, "cur").pc = "probing"})
       + Cardinality({n \in NodeIds : Load(n, "old").pc = "probing"})

\* A variant of the limiter that lets every coroutine in.
SemaphoreIgnored == TRUE

\* process_node_with_limit: async with self.semaphore
SemaphoreFree == InFlight < SemaphoreLimit

\* process_node up to its first await
BeginAt(n, slot) ==
    /\ Load(n, slot).pc = "created"
    /\ SemaphoreFree
    /\ LET cur == Load(n, slot)
           node == cur.node[1]
           group == cur.group[1]
           last == Get(last_ping_time, n, 0)
           states == GetNodeState(node_states, n)
           current_status == states[n].status
           tk == [cur EXCEPT !.pc = "probing", !.now = now,
                             !.current_status = current_status]
       IN  IF ~node.has_group
           THEN \* orphan
                /\ tasks' = Store(n, slot, NoTask)
                /\ EarlyReturn(n, "orphan")
                /\ UNCHANGED <<mgrVars, down_tasks>>
           ELSE IF ~IsDue(now, last, IntervalOf(node, group), current_status)
           THEN /\ tasks' = Store(n, slot, NoTask)
                /\ node_states' = states
                /\ EarlyReturn(n, "not_due")
                /\ UNCHANGED <<last_ping_time, latest_results, down_tasks>>
           ELSE /\ last_ping_time' = Put(last_ping_time, n, now)
                /\ IF IsDisabled(node, group)
                   THEN /\ latest_results' = Put(latest_results, n, PausedResult)
                        /\ node_states' = states
                        /\ tasks' = Store(n, slot, NoTask)
                        /\ EarlyReturn(n, "paused")
                        /\ UNCHANGED down_tasks
                   ELSE IF ~UsePing(node, group) /\ ~UseSnmp(node, group)
                   THEN \* no monitor runs: nothing is awaited, overall_success is False
                        /\ CompleteProbe(n, tk, states, FALSE, FALSE, {})
                        /\ tasks' = Store(n, slot, NoTask)
                   ELSE /\ tasks' = Store(n, slot, tk)
                        /\ node_states' = states
                        /\ UNCHANGED <<latest_results, down_tasks, lastTick>>
    /\ UNCHANGED <<alertVars, sample_no, rateVars, storageVars, loopVars, sinkVars, logVars, now, dbVars, procVars>>

ProcessNodeBegin(n) == BeginAt(n, "cur")

\* process_node after the monitors have returned, up to "Store latest result"
FinishAt(n, slot, ping_ok, snmp_ok) ==
    /\ Load(n, slot).pc = "probing"
    /\ LET node == Load(n, slot).node[1]
           group == Load(n, slot).group[1]
           \* all(r.success for r in monitor_results)
           overall_success == /\ (UsePing(node, group) => ping_ok)
                              /\ (UseSnmp(node, group) => snmp_ok)
       IN  /\ (~UsePing(node, group) => ping_ok)
           /\ (~UseSnmp(node, group) => snmp_ok)
           /\ CompleteProbe(n, Load(n, slot), node_states, TRUE, overall_success,
                            {[protocol |-> "icmp", success |-> ping_ok] : x \in
                                 IF UsePing(node, group) THEN {1} ELSE {}}
                              \cup {[protocol |-> "snmp", success |-> snmp_ok] : x \in
                                 IF UseSnmp(node, group) THEN {1} ELSE {}})
    /\ UNCHANGED <<alertVars, sample_no, rateVars, storageVars, loopVars, sinkVars, logVars, now, dbVars, last_ping_time, procVars>>

\* process_node returns; gather() collects the result
ProcessNodeFinish(n, ping_ok, snmp_ok) ==
    /\ FinishAt(n, "cur", ping_ok, snmp_ok)
    /\ ~IcmpMetricsRaise(n, tasks[n].node[1], tasks[n].group[1], ping_ok)
    /\ ~WriteRaises
    /\ tasks' = Store(n, "cur", NoTask)

\* process_node raises: gather() (no return_exceptions) re-raises into run_loop, which
\* logs, sleeps and starts the next iteration while the other coroutines of this one
\* are still scheduled.
ProcessNodeRaise(n, snmp_ok) ==
    /\ FinishAt(n, "cur", TRUE, snmp_ok)
    /\ IcmpMetricsRaise(n, tasks[n].node[1], tasks[n].group[1], TRUE) \/ WriteRaises
    /\ \A k \in NodeIds \ {n} : tasks[k].pc # "none" => tasks[k].old = << >>
    /\ tasks' = [k \in NodeIds |->
                    IF k = n \/ tasks[k].pc = "none"
                    THEN [NoTask EXCEPT !.old = tasks[k].old]
                    ELSE [NoTask EXCEPT !.old = <<[tasks[k] EXCEPT !.old = << >>]>>]]

\* A coroutine of an abandoned iteration runs on: nobody awaits its result.
StrayBegin(n) == BeginAt(n, "old")

StrayFinish(n, ping_ok, snmp_ok) ==
    /\ FinishAt(n, "old", ping_ok, snmp_ok)
    /\ tasks' = Store(n, "old", NoTask)

(***************************************************************************)
(* Operator requests                                                       *)
(***************************************************************************)
\* A variant that updates the cache only, as the disabled branch of process_node does.
SetPausedCacheOnly(n) ==
    /\ n \in DOMAIN db_nodes
    /\ latest_results' = Put(latest_results, n, PausedResult)
    /\ UNCHANGED <<alertVars, sample_no, rateVars, storageVars, loopVars, sinkVars, logVars, now, dbVars, last_ping_time, node_states, procVars, tasks, down_tasks,
                   lastTick>>

\* MonitorManager.set_paused(node)
SetPaused(n) ==
    /\ n \in DOMAIN db_nodes
    /\ latest_results' = Put(latest_results, n, PausedResult)
    /\ node_states' = IF n \in DOMAIN node_states
                      THEN [node_states EXCEPT ![n].status = "PAUSED",
                                               ![n].failure_count = 0]
                      ELSE node_states
    /\ UNCHANGED <<alertVars, sample_no, rateVars, storageVars, loopVars, sinkVars, logVars, now, dbVars, last_ping_time, procVars, tasks, down_tasks, lastTick>>

\* A variant that stores the current time, as process_node does, instead of 0.
TriggerImmediateCheckNow(n) ==
    /\ last_ping_time' = Put(last_ping_time, n, now)
    /\ UNCHANGED <<alertVars, sample_no, rateVars, storageVars, loopVars, sinkVars, logVars, now, dbVars, latest_results, node_states, procVars, tasks, down_tasks,
                   lastTick>>

\* MonitorManager.trigger_immediate_check(node_id): both branches store 0
TriggerImmediateCheck(n) ==
    /\ last_ping_time' = Put(last_ping_time, n, 0)
    /\ UNCHANGED <<alertVars, sample_no, rateVars, storageVars, loopVars, sinkVars, logVars, now, dbVars, latest_results, node_states, procVars, tasks, down_tasks,
                   lastTick>>

\* PUT /config/nodes/{node_id} changing the enabled flag
UpdateNode(n, enabled) ==
    /\ n \in DOMAIN db_nodes
    /\ db_nodes[n].enabled # enabled
    /\ db_nodes' = [db_nodes EXCEPT ![n].enabled = enabled]
    /\ LET was_paused == db_nodes[n].enabled = FALSE
           will_be_enabled == enabled = TRUE
       IN  last_ping_time' = IF was_paused /\ will_be_enabled
                             THEN Put(last_ping_time, n, 0)
                             ELSE last_ping_time
    /\ UNCHANGED <<alertVars, sample_no, rateVars, storageVars, loopVars, sinkVars, logVars, now, db_group, db_metrics, pushover_config, latest_results, node_states,
                   procVars, tasks, down_tasks, lastTick>>

\* PUT /config/groups/{group_id} changing the enabled flag
UpdateGroup(enabled) ==
    /\ db_group.enabled # enabled
    /\ db_group' = [db_group EXCEPT !.enabled = enabled]
    /\ LET was_paused == db_group.enabled = FALSE
           will_be_enabled == enabled = TRUE
           triggered == IF was_paused /\ will_be_enabled
                        THEN {n \in DOMAIN db_nodes :
                                 db_nodes[n].has_group /\ db_nodes[n].enabled}
                        ELSE {}
       IN  last_ping_time' = [n \in (DOMAIN last_ping_time) \cup triggered |->
                                 IF n \in triggered THEN 0 ELSE last_ping_time[n]]
    /\ UNCHANGED <<alertVars, sample_no, rateVars, storageVars, loopVars, sinkVars, logVars, now, db_nodes, db_metrics, pushover_config, latest_results, node_states,
                   procVars, tasks, down_tasks, lastTick>>

\* DELETE /config/nodes/{node_id}: the row and (by cascade) its bindings are deleted,
\* then remove_node(node_id) drops the node from the three caches.  A process_node
\* coroutine waiting for its monitors keeps the state dict it fetched.
DeleteNode(n) ==
    /\ n \in DOMAIN db_nodes
    /\ db_nodes' = Del(db_nodes, n)
    /\ db_metrics' = [m \in {k \in DOMAIN db_metrics : db_metrics[k].node_id # n} |->
                         db_metrics[m]]
    /\ latest_results' = Del(latest_results, n)
    /\ last_ping_time' = Del(last_ping_time, n)
    /\ node_states' = Del(node_states, n)
    /\ tasks' = IF tasks[n].pc = "probing" /\ n \in DOMAIN node_states
                    /\ IsNone(tasks[n].detached)
                THEN [tasks EXCEPT ![n].detached = Some(node_states[n])]
                ELSE tasks
    /\ UNCHANGED <<alertVars, sample_no, rateVars, storageVars, loopVars, sinkVars, logVars, now, db_group, pushover_config, procVars, down_tasks, lastTick>>

(***************************************************************************)
(* MetricProcessor                                                         *)
(***************************************************************************)
CooldownSeconds == 60

\* "Determine strict level based on thresholds"
StrictLevel(nm, value) ==
    IF /\ ~IsNone(nm.critical_threshold)
       /\ \/ nm.alert_condition = "gt" /\ value >= nm.critical_threshold[1]
          \/ nm.alert_condition = "lt" /\ value <= nm.critical_threshold[1]
    THEN "CRITICAL"
    ELSE IF /\ ~IsNone(nm.warning_threshold)
            /\ \/ nm.alert_condition = "gt" /\ value >= nm.warning_threshold[1]
               \/ nm.alert_condition = "lt" /\ value <= nm.warning_threshold[1]
    THEN "WARNING"
    ELSE "null"

\* A variant of the hysteresis that also holds the level at exactly 95% / 105% of the
\* threshold.
HysteresisInclusive(nm, value, prev, level) ==
    IF prev = "CRITICAL" /\ level # "CRITICAL"
    THEN IF \/ nm.alert_condition = "gt" /\ 100 * value >= 95 * nm.critical_threshold[1]
            \/ nm.alert_condition = "lt" /\ 100 * value <= 105 * nm.critical_threshold[1]
         THEN "CRITICAL" ELSE level
    ELSE IF prev = "WARNING" /\ level = "null"
    THEN IF \/ nm.alert_condition = "gt" /\ 100 * value >= 95 * nm.warning_threshold[1]
            \/ nm.alert_condition = "lt" /\ 100 * value <= 105 * nm.warning_threshold[1]
         THEN "WARNING" ELSE level
    ELSE level

\* "Apply Hysteresis to prevent flapping": value > threshold * (1.0 - 0.05), in hundredths
Hysteresis(nm, value, prev, level) ==
    IF prev = "CRITICAL" /\ level # "CRITICAL"
    THEN IF \/ nm.alert_condition = "gt" /\ 100 * value > 95 * nm.critical_threshold[1]
            \/ nm.alert_condition = "lt" /\ 100 * value < 105 * nm.critical_threshold[1]
         THEN "CRITICAL" ELSE level
    ELSE IF prev = "WARNING" /\ level = "null"
    THEN IF \/ nm.alert_condition = "gt" /\ 100 * value > 95 * nm.warning_threshold[1]
            \/ nm.alert_condition = "lt" /\ 100 * value < 105 * nm.warning_threshold[1]
         THEN "WARNING" ELSE level
    ELSE level

\* A variant of the cooldown that never holds a notification back.
CooldownIgnored(last_sent) == FALSE

\* "Check cooldown to prevent duplicate notifications"
CooldownActive(last_sent) == now - last_sent < CooldownSeconds

\* A variant of the lock that never makes a caller wait.
StateLockIgnored == TRUE

\* async with self.state_lock: a caller enters when no other call holds the lock
StateLockFree == IsNone(state_lock)

\* A variant that takes the notification sink for enabled whatever the configuration.
PushoverEnabledAlways == TRUE

\* "Check global Pushover Enabled setting"
PushoverEnabled == Get(pushover_config, "enabled", FALSE)

\* The notification _check_thresholds hands to PushoverClient.send_notification
MetricNotification(m, level) ==
    [title |-> IF level = "null" THEN "RESOLVED" ELSE level, about |-> m, at |-> now]

\* _check_thresholds(node, node_metric, value) up to its await of send_notification;
\* a call that does not send returns within the step.
CheckThresholds(m, value) ==
    /\ m \in DOMAIN db_metrics
    /\ db_metrics[m].node_id \in DOMAIN db_nodes
    /\ StateLockFree
    /\ LET nm == db_metrics[m]
           node == db_nodes[nm.node_id]
           prev == Get(alert_states, m, "null")
           level == Hysteresis(nm, value, prev, StrictLevel(nm, value))
           last_sent == Get(notification_cooldown, m, 0)
       IN  IF ~node.enabled
           THEN \* paused node: drop the binding's alert, no notification
                /\ alert_states' = Del(alert_states, m)
                /\ UNCHANGED <<notification_cooldown, state_lock, pushover_sent>>
           ELSE IF \/ ~PushoverEnabled
                   \/ IsNone(nm.warning_threshold) /\ IsNone(nm.critical_threshold)
                   \/ level = prev
           THEN UNCHANGED <<procVars, pushover_sent>>
           ELSE /\ alert_states' = Put(alert_states, m, level)
                /\ UNCHANGED notification_cooldown
                /\ IF CooldownActive(last_sent)
                   THEN UNCHANGED <<state_lock, pushover_sent>>
                   ELSE /\ pushover_sent' = Append(pushover_sent, MetricNotification(m, level))
                        /\ state_lock' = Some([metric |-> m, now |-> now])
    /\ UNCHANGED <<now, dbVars, mgrVars, tasks, down_tasks, lastTick, alert_history,
                   last_storm_alert_time>>

\* A variant of the rate that leaves a byte counter in bytes per second.
CalculateRateRaw(prev, cur_val, t, unit) ==
    IF IsNone(prev) THEN None
    ELSE LET time_delta == t - prev[1].timestamp
             val_delta == cur_val - prev[1].value
         IN  IF time_delta > 0 /\ val_delta >= 0
             THEN Some([num |-> val_delta, den |-> time_delta])
             ELSE None

\* _calculate_rate after the previous sample was read: the rate val_delta / time_delta
\* as the fraction num / den, times 8 for a byte counter; None when there is no rate.
CalculateRate(prev, cur_val, t, unit) ==
    IF IsNone(prev) THEN None
    ELSE LET time_delta == t - prev[1].timestamp
             val_delta == cur_val - prev[1].value
         IN  IF time_delta > 0 /\ val_delta >= 0
             THEN Some([num |-> IF unit = "bytes" THEN 8 * val_delta ELSE val_delta,
                        den |-> time_delta])
             ELSE None

\* A variant that keeps the remembered sample when the new one produced no rate.
StorePreviousIfRate(m, cur_val, rate) ==
    IF IsNone(rate) /\ m \in DOMAIN previous_values THEN previous_values
    ELSE Put(previous_values, m, [value |-> cur_val, timestamp |-> now])

\* _calculate_rate: "Update previous value store"
StorePrevious(m, cur_val, rate) ==
    Put(previous_values, m, [value |-> cur_val, timestamp |-> now])

\* "Adjust unit if rate"
FinalUnit(metric_type, unit) ==
    IF metric_type = "counter" /\ unit = "bytes" THEN "bps" ELSE unit

\* process_metric(node, node_metric, value): a counter yields its rate, which is checked
\* against the thresholds and written with the final unit, or nothing; a gauge is
\* checked as it is.
ProcessMetric(m, value) ==
    /\ m \in DOMAIN db_metrics
    /\ IF db_metrics[m].metric_type = "counter"
       THEN LET nm == db_metrics[m]
                prev == IF m \in DOMAIN previous_values
                        THEN Some(previous_values[m]) ELSE None
                rate == CalculateRate(prev, value, now, nm.unit)
            IN  /\ previous_values' = StorePrevious(m, value, rate)
                /\ IF IsNone(rate)
                   THEN /\ metric_result' = None
                        /\ UNCHANGED <<now, dbVars, mgrVars, procVars, tasks, down_tasks,
                                       lastTick, alertVars>>
                   ELSE /\ CheckThresholds(m, rate[1])
                        /\ metric_result' =
                               Some([rate |-> rate[1],
                                     unit |-> FinalUnit(nm.metric_type, nm.unit)])
       ELSE CheckThresholds(m, value) /\ UNCHANGED rateVars
    /\ UNCHANGED <<sample_no, storageVars, loopVars, sinkVars, logVars>>

\* send_notification returns, whatever its result: the cooldown starts at the time read
\* before the call, and the lock is released.
NotificationReturns ==
    /\ ~IsNone(state_lock)
    /\ notification_cooldown' = Put(notification_cooldown, state_lock[1].metric,
                                    state_lock[1].now)
    /\ state_lock' = None
    /\ UNCHANGED <<now, dbVars, mgrVars, alert_states, tasks, down_tasks, lastTick,
                   alertVars, sample_no, rateVars, storageVars, loopVars, sinkVars, logVars>>

(***************************************************************************)
(* _send_down_alert(node), run as its own task.  Everything it does to the *)
(* manager's state happens before its first await, so it is one step.      *)
(***************************************************************************)
\* The two notifications _send_down_alert hands to PushoverClient.send_notification
DownNotification(n) == [title |-> "down", about |-> n, at |-> now]
StormNotification == [title |-> "storm", about |-> "all", at |-> now]

\* A variant of the pruning that keeps only the timestamps of the last half window.
PruneHistoryHalfWindow(history, window) ==
    SelectSeq(history, LAMBDA t : 2 * (now - t) < window)

\* "Prune history"
PruneHistory(history, window) == SelectSeq(history, LAMBDA t : now - t < window)

\* A variant of the storm condition that tolerates one more alert.
StormDetectedAbove(history, threshold) == Len(history) > threshold

\* "Check storm condition"
StormDetected(history, threshold) == Len(history) >= threshold

\* A variant that sends the storm notification again as soon as the window has passed.
StormCooldownOverOrAt(last, window) == now - last >= window

\* "if not sent recently (limit to once per window)"
StormCooldownOver(last, window) == now - last > window

\* pushover.send_notification, reached only with token and user_key configured
Notify(msg) ==
    pushover_sent' = IF Get(pushover_config, "has_credentials", FALSE)
                     THEN Append(pushover_sent, msg)
                     ELSE pushover_sent

SendDownAlert(n) ==
    /\ down_tasks[n] > 0
    /\ down_tasks' = [down_tasks EXCEPT ![n] = @ - 1]
    /\ LET cfg == pushover_config
           throttling_enabled == Get(cfg, "throttling_enabled", FALSE)
           threshold == Get(cfg, "alert_threshold", 5)
           window == Get(cfg, "alert_window", 60)
           history == PruneHistory(alert_history, window)
       IN  IF ~Get(cfg, "enabled", FALSE)
           THEN UNCHANGED alertVars
           ELSE IF Get(cfg, "maintenance_mode", FALSE)
           THEN UNCHANGED alertVars
           ELSE IF throttling_enabled /\ StormDetected(history, threshold)
           THEN /\ alert_history' = history
                /\ IF StormCooldownOver(last_storm_alert_time, window)
                   THEN /\ last_storm_alert_time' = now
                        /\ Notify(StormNotification)
                   ELSE UNCHANGED <<last_storm_alert_time, pushover_sent>>
           ELSE /\ alert_history' = IF throttling_enabled
                                    THEN Append(history, now)
                                    ELSE alert_history
                /\ Notify(DownNotification(n))
                /\ UNCHANGED last_storm_alert_time
    /\ UNCHANGED <<now, dbVars, mgrVars, procVars, tasks, lastTick, sample_no, rateVars, storageVars, loopVars, sinkVars, logVars>>

(***************************************************************************)
(* Clock                                                                   *)
(***************************************************************************)
Advance(horizon) ==
    /\ now < StartTime + horizon
    /\ now' = now + 1
    /\ UNCHANGED <<alertVars, sample_no, rateVars, storageVars, loopVars, sinkVars, logVars, dbVars, mgrVars, procVars, tasks, down_tasks, lastTick>>

AdvanceTime == Advance(MaxTime)

(***************************************************************************)
(* Storage: the application configuration and config.json                  *)
(***************************************************************************)
\* dict.update(other)
Merge(base, other) ==
    [k \in (DOMAIN base) \cup (DOMAIN other) |-> IF k \in DOMAIN other THEN other[k] ELSE base[k]]

\* the configuration reload_config starts from
DefaultConfig ==
    [influxdb |-> [enabled |-> FALSE, url |-> "", token |-> "", org |-> "beamstate",
                   bucket |-> "monitoring"],
     logging |-> [file_enabled |-> TRUE, file_path |-> "data/logs.json",
                  retention_lines |-> 200, log_level |-> "INFO"]]

\* the sections reload_config copies out of the file's app_config
MergedConfig(file) ==
    IF file.exists /\ "app_config" \in DOMAIN file.data
    THEN LET app_config == file.data["app_config"]
         IN  [influxdb |-> Merge(DefaultConfig.influxdb, Get(app_config, "influxdb", << >>)),
              logging |-> Merge(DefaultConfig.logging, Get(app_config, "logging", << >>))]
    ELSE DefaultConfig

\* influx_conf["enabled"] and influx_conf["url"] and influx_conf["token"]
InfluxUsable(config) ==
    /\ config.influxdb.enabled
    /\ config.influxdb.url # ""
    /\ config.influxdb.token # ""

\* Storage.reload_config reading the given file: self.config is rebuilt from the
\* defaults, which have no pushover section, before the file is opened.
ReloadFrom(file) ==
    /\ pushover_config' = << >>
    /\ IF file.exists /\ ~file.parses
       THEN /\ storage_config' = DefaultConfig
            /\ use_influx' = FALSE
       ELSE /\ storage_config' = MergedConfig(file)
            /\ use_influx' = InfluxUsable(MergedConfig(file))

\* Storage.__init__: reload_config on a new object
Constructed(file) ==
    /\ pushover_config = << >>
    /\ IF file.exists /\ ~file.parses
       THEN /\ storage_config = DefaultConfig
            /\ use_influx = FALSE
       ELSE /\ storage_config = MergedConfig(file)
            /\ use_influx = InfluxUsable(MergedConfig(file))

ReloadConfig ==
    /\ ReloadFrom(config_file)
    /\ UNCHANGED <<now, db_nodes, db_group, db_metrics, mgrVars, procVars, tasks, down_tasks,
                   lastTick, alertVars, sample_no, rateVars, config_file, loopVars, sinkVars, logVars>>

\* save_app_config: the checks on the pushover section
ValidatedPushover(p_config) ==
    [k \in DOMAIN p_config |->
        IF k = "priority" /\ ~(p_config[k] \in -2..2) THEN 0
        ELSE IF k = "alert_threshold" /\ p_config[k] < 1 THEN 5
        ELSE IF k = "alert_window" /\ p_config[k] < 1 THEN 60
        ELSE p_config[k]]

ValidatedAppConfig(app_config) ==
    IF "pushover" \in DOMAIN app_config
    THEN Put(app_config, "pushover", ValidatedPushover(app_config["pushover"]))
    ELSE app_config

\* save_app_config: what config.json holds afterwards
SavedFile(file, app_config) ==
    IF ~file.exists THEN file
    ELSE [file EXCEPT !.data = Put(file.data, "app_config", ValidatedAppConfig(app_config))]

\* PUT /config/app: save_app_config, then storage.reload_config(). A file that does
\* not parse makes save_app_config raise before anything is written or reloaded.
UpdateAppConfig(app_config) ==
    /\ ~config_file.exists \/ config_file.parses
    /\ config_file' = SavedFile(config_file, app_config)
    /\ ReloadFrom(SavedFile(config_file, app_config))
    /\ UNCHANGED <<now, db_nodes, db_group, db_metrics, mgrVars, procVars, tasks, down_tasks,
                   lastTick, alertVars, sample_no, rateVars, loopVars, sinkVars, logVars>>

\* config.json rewritten outside the program
EditFile(file) ==
    /\ config_file' = file
    /\ UNCHANGED <<now, dbVars, mgrVars, procVars, tasks, down_tasks, lastTick, alertVars,
                   sample_no, rateVars, storage_config, use_influx, loopVars, sinkVars, logVars>>

(***************************************************************************)
(* Initial states: a fresh MonitorManager and MetricProcessor, an          *)
(* inventory of one group.                                                 *)
(***************************************************************************)
MetricValues == {50, 85, 95}

GaugeBinding(n) ==
    [node_id |-> n, warning_threshold |-> Some(80), critical_threshold |-> Some(90),
     alert_condition |-> "gt", metric_source |-> "snmp", metric_type |-> "gauge",
     unit |-> "percent"]

NodeRow(interval, max_retries, monitor_ping, monitor_snmp) ==
    [enabled |-> TRUE, has_group |-> TRUE, interval |-> interval,
     max_retries |-> max_retries, monitor_ping |-> monitor_ping,
     monitor_snmp |-> monitor_snmp]

\* The node rows the inventory is drawn from: group defaults and overrides of the
\* interval, of the retry budget and of the protocols.
NodeConfigs ==
    { NodeRow(None, Some(0), None, None),
      NodeRow(Some(NodeInterval), None, None, Some(TRUE)),
      NodeRow(None, Some(NodeMaxRetries), None, None) }

\* MetricProcessor.__init__ loads alert_states from the JSON file the previous run
\* left behind: no entry, or a WARNING or CRITICAL level per binding.
PersistedAlertStates ==
    {<< >>} \cup UNION {[{m} -> {"WARNING", "CRITICAL"}] : m \in SingleMetric}

\* MonitorManager.__init__ and MetricProcessor.__init__
InitRuntime ==
    /\ last_ping_time = << >>
    /\ latest_results = << >>
    /\ node_states = << >>
    /\ alert_states \in PersistedAlertStates
    /\ notification_cooldown = << >>
    /\ state_lock = None
    /\ tasks = [n \in NodeIds |-> NoTask]
    /\ down_tasks = [n \in NodeIds |-> 0]
    /\ lastTick = NoTick
    /\ alert_history = << >>
    /\ last_storm_alert_time = 0
    /\ pushover_sent = << >>
    /\ sample_no = 0
    /\ previous_values = << >>
    /\ metric_result = None
    /\ config_file = [exists |-> TRUE, parses |-> TRUE, data |-> << >>]
    /\ storage_config = DefaultConfig
    /\ use_influx = FALSE
    /\ running = TRUE
    /\ loop_task = "running"
    /\ pushover_ok = TRUE
    /\ storage_ok = TRUE
    /\ log_file = << >>
    /\ file_lock = None
    /\ writers = << >>
    /\ lock_order = << >>

\* Storage.reload_config builds the configuration without a pushover section, so the
\* notification sink starts disabled.
Init ==
    /\ now = StartTime
    /\ db_group = [enabled |-> TRUE, interval |-> GroupInterval,
                   max_retries |-> GroupMaxRetries,
                   monitor_ping |-> TRUE, monitor_snmp |-> FALSE]
    /\ db_nodes \in [SingleNode -> NodeConfigs]
    /\ db_metrics = [m \in SingleMetric |-> GaugeBinding("n1")]
    /\ pushover_config = [enabled |-> FALSE]
    /\ InitRuntime

Next ==
    \/ AdvanceTime
    \/ StartTick
    \/ \E n \in NodeIds : ProcessNodeBegin(n)
    \/ \E n \in NodeIds, ping_ok, snmp_ok \in BOOLEAN : ProcessNodeFinish(n, ping_ok, snmp_ok)
    \/ \E n \in NodeIds : SendDownAlert(n)
    \/ \E n \in DOMAIN db_nodes : TriggerImmediateCheck(n)
    \/ \E n \in NodeIds, e \in BOOLEAN : UpdateNode(n, e)
    \/ \E e \in BOOLEAN : UpdateGroup(e)
    \/ \E m \in MetricIds, v \in MetricValues : ProcessMetric(m, v)

Spec == Init /\ [][Next]_vars

\* The same program with MonitorManager.set_paused called as well: no router calls it,
\* its callers are the tests.  No alert level is persisted from an earlier run.
InitPause == Init /\ alert_states = << >>

NextPause ==
    \/ Next
    \/ \E n \in NodeIds : SetPaused(n)

SpecPause == InitPause /\ [][NextPause]_vars

(***************************************************************************)
(* Scenario S1: one node, interval 60, max_retries 3, every probe fails.   *)
(* The loop ticks every second and a probe returns within its second: the  *)
(* clock moves only when no coroutine is in flight and no node is due.     *)
(***************************************************************************)
S1Horizon == 130

InitS1 ==
    /\ now = StartTime
    /\ db_group = [enabled |-> TRUE, interval |-> 60, max_retries |-> 3,
                   monitor_ping |-> TRUE, monitor_snmp |-> FALSE]
    /\ db_nodes = [n \in SingleNode |-> NodeRow(None, None, None, None)]
    /\ db_metrics = << >>
    /\ pushover_config = [enabled |-> FALSE]
    /\ InitRuntime
    /\ alert_states = << >>

AdvanceS1 ==
    /\ \A n \in NodeIds : tasks[n].pc = "none"
    /\ \A n \in DOMAIN db_nodes :
          ~IsDue(now, Get(last_ping_time, n, 0), IntervalOf(db_nodes[n], db_group),
                 Get(node_states, n, NewNodeState).status)
    /\ Advance(S1Horizon)

NextS1 ==
    \/ AdvanceS1
    \/ StartTick
    \/ \E n \in NodeIds : ProcessNodeBegin(n)
    \/ \E n \in NodeIds : ProcessNodeFinish(n, FALSE, TRUE)

SpecS1 == InitS1 /\ [][NextS1]_vars

(***************************************************************************)
(* Properties                                                              *)
(***************************************************************************)
\* The step is process_node(n) running up to its first await (or returning early).
BeginStep(n) == tasks[n].pc = "created" /\ tasks'[n].pc # "created"
\* The step is process_node(n) resuming after its monitors returned.
FinishStep(n) == tasks[n].pc = "probing" /\ tasks'[n].pc = "none"
\* The step runs the monitors' outcome through the state machine with a failure / success.
FailedProbe(n) == FinishStep(n) /\ ~lastTick'.success
SucceededProbe(n) == FinishStep(n) /\ lastTick'.success
StatusBefore(n) == Get(node_states, n, NewNodeState).status
StatusAfter(n) == Get(node_states', n, NewNodeState).status
CountBefore(n) == Get(node_states, n, NewNodeState).failure_count
CountAfter(n) == Get(node_states', n, NewNodeState).failure_count
\* The retry budget the coroutine of n works with.
TaskMaxRetries(n) == MaxRetriesOf(tasks[n].node[1], tasks[n].group[1])
\* The step creates a _send_down_alert task for n.
DownAlertCreated(n) == down_tasks'[n] > down_tasks[n]

\* C1 (as claimed): a node's status becomes DOWN only in a step whose preceding status
\* was PENDING and whose failed probe raised failure_count above max_retries.
C1_DownOnlyFromPending ==
    [][\A n \in NodeIds :
          (StatusAfter(n) = "DOWN" /\ StatusBefore(n) # "DOWN")
             => /\ StatusBefore(n) = "PENDING"
                /\ FailedProbe(n)
                /\ CountAfter(n) > TaskMaxRetries(n)]_vars

\* S1: the node has returned from its tick of the current second.
S1Settled ==
    /\ tasks["n1"].pc = "none"
    /\ "n1" \in DOMAIN node_states
    /\ "n1" \in DOMAIN last_ping_time
    /\ ~IsDue(now, last_ping_time["n1"], 60, node_states["n1"].status)

S1Is(status, count, alerts) ==
    /\ node_states["n1"].status = status
    /\ node_states["n1"].failure_count = count
    /\ down_tasks["n1"] = alerts

\* C2 (as claimed): probes failing at t = 0, 20, 40, 60, 80 leave the node PENDING four
\* times and DOWN after the fifth, the one DOWN alert being created at t = 80.
C2_DownAtFifthProbe ==
    S1Settled =>
        LET t == now - StartTime
        IN  /\ (t < 80 => node_states["n1"].status = "PENDING" /\ down_tasks["n1"] = 0)
            /\ (t >= 80 => node_states["n1"].status = "DOWN" /\ down_tasks["n1"] = 1)

\* C2 (amended): probes failing at t = 0, 20, 40, 60 leave the node PENDING (1), PENDING (2),
\* PENDING (3) and DOWN; the one DOWN alert is created at t = 60 and the DOWN node is not
\* probed again before t = 120.
C2_DownAtFourthProbe ==
    S1Settled =>
        LET t == now - StartTime
        IN  /\ (t < 20 => S1Is("PENDING", 1, 0) /\ last_ping_time["n1"] = StartTime)
            /\ (20 <= t /\ t < 40 => S1Is("PENDING", 2, 0) /\ last_ping_time["n1"] = StartTime + 20)
            /\ (40 <= t /\ t < 60 => S1Is("PENDING", 3, 0) /\ last_ping_time["n1"] = StartTime + 40)
            /\ (60 <= t /\ t < 120 => S1Is("DOWN", 4, 1) /\ last_ping_time["n1"] = StartTime + 60)
            /\ (120 <= t => S1Is("DOWN", 4, 1))

C2_Witness ==
    /\ now = StartTime + 80
    /\ S1Settled
    /\ S1Is("DOWN", 4, 1)
    /\ last_ping_time["n1"] = StartTime + 60

\* C3 (as claimed): with max_retries = k >= 1, failures from UP leave the node PENDING with
\* failure_count 1..k, the next failure sets it DOWN, and a following success sets it UP
\* with failure_count 0.
C3_RetryLadder ==
    [][\A n \in NodeIds :
          (FinishStep(n) /\ TaskMaxRetries(n) >= 1 /\ tasks[n].current_status = StatusBefore(n))
             => /\ (FailedProbe(n) /\ StatusBefore(n) = "UP"
                      => StatusAfter(n) = "PENDING" /\ CountAfter(n) = 1)
                /\ (FailedProbe(n) /\ StatusBefore(n) = "PENDING"
                                   /\ CountBefore(n) \in 1..(TaskMaxRetries(n) - 1)
                      => StatusAfter(n) = "PENDING" /\ CountAfter(n) = CountBefore(n) + 1)
                /\ (FailedProbe(n) /\ StatusBefore(n) = "PENDING"
                                   /\ CountBefore(n) = TaskMaxRetries(n)
                      => StatusAfter(n) = "DOWN")
                /\ (SucceededProbe(n) /\ StatusBefore(n) = "DOWN"
                      => StatusAfter(n) = "UP" /\ CountAfter(n) = 0)]_vars

\* C4: with max_retries = 0 a failed probe takes an UP node to PENDING (failure_count 1,
\* never to DOWN and without a DOWN alert) and a PENDING node to DOWN.
C4_ZeroRetries ==
    [][\A n \in NodeIds :
          (FailedProbe(n) /\ TaskMaxRetries(n) = 0)
             => /\ (StatusBefore(n) = "UP"
                      => /\ StatusAfter(n) = "PENDING"
                         /\ CountAfter(n) = 1
                         /\ ~DownAlertCreated(n))
                /\ (StatusBefore(n) = "PENDING"
                      => StatusAfter(n) = "DOWN" /\ DownAlertCreated(n))]_vars

C4_Witness ==
    /\ MaxRetriesOf(db_nodes["n1"], db_group) = 0
    /\ "n1" \in DOMAIN node_states
    /\ node_states["n1"].status = "DOWN"
    /\ node_states["n1"].failure_count = 2
    /\ lastTick.outcome = "probed"
    /\ lastTick.enqueued

\* C5 (as claimed): a successful probe sets a PENDING or DOWN node UP and resets
\* failure_count and first_failure_time; an UP node always has failure_count 0.
C5_SuccessResets ==
    /\ [](\A n \in DOMAIN node_states :
             node_states[n].status = "UP" => node_states[n].failure_count = 0)
    /\ [][\A n \in NodeIds :
             (SucceededProbe(n) /\ StatusBefore(n) \in {"PENDING", "DOWN"})
                => /\ StatusAfter(n) = "UP"
                   /\ CountAfter(n) = 0
                   /\ node_states'[n].first_failure_time = 0]_vars

\* C6: a node that has a group, is enabled (node and group) and has a protocol to monitor
\* is probed in a tick exactly when now - last_checked >= effective_interval, the interval
\* (node override, else group default) being divided by 3 while the node is PENDING; no
\* other node is probed, and no node is probed before that time.
C6_ProbedIffDue ==
    [][\A n \in NodeIds :
          BeginStep(n) =>
             LET node == tasks[n].node[1]
                 group == tasks[n].group[1]
                 interval == IF Len(node.interval) > 0 THEN node.interval[1]
                             ELSE group.interval
                 delta == now - (IF n \in DOMAIN last_ping_time THEN last_ping_time[n] ELSE 0)
                 due == IF StatusBefore(n) = "PENDING" THEN 3 * delta >= interval
                        ELSE delta >= interval
                 eligible == /\ node.has_group
                             /\ node.enabled /\ group.enabled
                             /\ (UsePing(node, group) \/ UseSnmp(node, group))
                 probed == tasks'[n].pc = "probing"
             IN  probed <=> (eligible /\ due)]_vars

\* A PENDING node probed again after a third of its interval, before the full interval.
C6_Witness ==
    /\ tasks["n1"].pc = "probing"
    /\ tasks["n1"].current_status = "PENDING"
    /\ node_states["n1"].failure_count = 1
    /\ node_states["n1"].first_failure_time > 0
    /\ 3 * (now - node_states["n1"].first_failure_time)
          >= IntervalOf(tasks["n1"].node[1], tasks["n1"].group[1])
    /\ now - node_states["n1"].first_failure_time
          < IntervalOf(tasks["n1"].node[1], tasks["n1"].group[1])

\* C7 (as claimed): a DOWN alert is created in exactly the steps in which a node enters DOWN.
C7_AlertIffDownEntered ==
    [][\A n \in NodeIds :
          (StatusAfter(n) = "DOWN" /\ StatusBefore(n) # "DOWN") <=> DownAlertCreated(n)]_vars

\* C8 (as claimed): a tick that finds the node disabled runs no probe and leaves the node's
\* state PAUSED with failure_count 0.
C8_PausedTickResetsState ==
    [][\A n \in NodeIds :
          (BeginStep(n) /\ lastTick'.outcome = "paused" /\ lastTick'.node = n)
             => /\ tasks'[n].pc = "none"
                /\ StatusAfter(n) = "PAUSED"
                /\ CountAfter(n) = 0]_vars

\* C9 (as claimed): the first probe of a node after a tick that found it disabled starts
\* from the UP state.
C9_ResumesFromUp ==
    [][\A n \in NodeIds :
          (BeginStep(n) /\ tasks'[n].pc = "probing"
              /\ lastTick.outcome = "paused" /\ lastTick.node = n)
             => tasks'[n].current_status = "UP"]_vars

\* C10 (as claimed): no binding of a disabled node (node or group flag) whose latest result
\* is PAUSED has an alert level.
C10_PausedHasNoAlert ==
    \A n \in DOMAIN latest_results :
        (latest_results[n].status = "PAUSED" /\ IsDisabled(db_nodes[n], db_group))
           => \A m \in NodeMetrics(n) : Get(alert_states, m, "null") = "null"

\* C11 (as claimed): a tick that processes a disabled node (node or group flag) leaves the
\* node's latest result PAUSED, whether or not the node is due by its interval.
C11_DisabledTickReportsPaused ==
    [][\A n \in NodeIds :
          (BeginStep(n) /\ tasks[n].node[1].has_group
              /\ IsDisabled(tasks[n].node[1], tasks[n].group[1]))
             => /\ n \in DOMAIN latest_results'
                /\ latest_results'[n].status = "PAUSED"]_vars

\* The step is an operator request that writes the last-checked time of n.
LastCheckedSetByOperator(n) ==
    /\ tasks' = tasks
    /\ n \in DOMAIN last_ping_time'
    /\ (n \in DOMAIN last_ping_time => last_ping_time'[n] # last_ping_time[n])

Changed(f, g, k) ==
    \/ (k \in DOMAIN f) # (k \in DOMAIN g)
    \/ (k \in DOMAIN f /\ k \in DOMAIN g /\ f[k] # g[k])

SetPausedStep(n) ==
    /\ tasks' = tasks
    /\ Changed(latest_results, latest_results', n) \/ Changed(node_states, node_states', n)

NextRemove ==
    \/ AdvanceTime
    \/ StartTick
    \/ \E n \in NodeIds : ProcessNodeBegin(n)
    \/ \E n \in NodeIds, ping_ok, snmp_ok \in BOOLEAN : ProcessNodeFinish(n, ping_ok, snmp_ok)
    \/ \E n \in NodeIds : SendDownAlert(n)
    \/ \E m \in MetricIds, v \in MetricValues : ProcessMetric(m, v)
    \/ \E n \in NodeIds : DeleteNode(n)

SpecRemove == Init /\ [][NextRemove]_vars

\* The step is DELETE /config/nodes/n.
DeleteNodeStep(n) == n \in DOMAIN db_nodes /\ n \notin DOMAIN db_nodes'

\* C14 (as claimed): after remove_node(n) the node has no latest result, last-checked time
\* or reachability state, and its bindings have no alert level or notification cooldown.
C14_RemoveEvictsAll ==
    [][\A n \in NodeIds :
          DeleteNodeStep(n)
             => /\ n \notin DOMAIN latest_results'
                /\ n \notin DOMAIN last_ping_time'
                /\ n \notin DOMAIN node_states'
                /\ \A m \in NodeMetrics(n) :
                      /\ m \notin DOMAIN alert_states'
                      /\ m \notin DOMAIN notification_cooldown']_vars

(***************************************************************************)
(* The monitor loop over an inventory larger than the limiter: n1 is       *)
(* probed by ping and SNMP and carries the two ICMP bindings (latency and  *)
(* packet loss), n2 and n3 are probed by ping and carry none.              *)
(***************************************************************************)
LoopInterval == 1      \* NodeDB.interval of the nodes
LoopHorizon == 1       \* seconds explored after StartTime

IcmpBinding(n) ==
    [node_id |-> n, warning_threshold |-> None, critical_threshold |-> None,
     alert_condition |-> "gt", metric_source |-> "icmp", metric_type |-> "gauge",
     unit |-> "ms"]

InitLoop ==
    /\ now = StartTime
    /\ db_group = [enabled |-> TRUE, interval |-> GroupInterval,
                   max_retries |-> GroupMaxRetries,
                   monitor_ping |-> TRUE, monitor_snmp |-> FALSE]
    /\ db_nodes = [n \in NodeIds |->
                      NodeRow(Some(LoopInterval), None, None,
                              IF n = "n1" THEN Some(TRUE) ELSE None)]
    /\ db_metrics = [m \in MetricIds |-> IcmpBinding("n1")]
    /\ pushover_config = [enabled |-> FALSE]
    /\ InitRuntime
    /\ alert_states = << >>

NextLoop ==
    \/ Advance(LoopHorizon)
    \/ StartTick
    \/ \E n \in NodeIds : ProcessNodeBegin(n)
    \/ \E n \in NodeIds, ping_ok \in BOOLEAN : ProcessNodeFinish(n, ping_ok, TRUE)
    \/ \E n \in NodeIds : ProcessNodeRaise(n, TRUE)
    \/ \E n \in NodeIds : StrayBegin(n)
    \/ \E n \in NodeIds, ping_ok \in BOOLEAN : StrayFinish(n, ping_ok, TRUE)
    \/ \E n \in NodeIds : SendDownAlert(n)

SpecLoop == InitLoop /\ [][NextLoop]_vars

\* C15: at no time are more process_node executions in progress than the limiter admits,
\* however many nodes the inventory holds.
C15_LimiterBound == InFlight <= SemaphoreLimit

\* The limiter is full while a further coroutine of the iteration waits at its entry.
C15_Witness ==
    /\ InFlight = SemaphoreLimit
    /\ \E n \in NodeIds : Load(n, "cur").pc = "created"

\* C16: a node never has two probe executions in flight at once, also after another
\* node's coroutine raised and when a probe outlasts the node's interval.
C16_OneProbePerNode ==
    \A n \in NodeIds : ~(Load(n, "cur").pc = "probing" /\ Load(n, "old").pc = "probing")

(***************************************************************************)
(* The alert path on its own: six nodes have entered DOWN, so six          *)
(* _send_down_alert tasks have been created and none has run yet.  The     *)
(* tasks run in any order while the clock moves in steps of StormStep.     *)
(***************************************************************************)
AlertThreshold == 5    \* pushover alert_threshold
AlertWindow == 60      \* pushover alert_window
StormStep == 30
StormHorizon == 60

StormNodeIds == {"n1", "n2", "n3", "n4", "n5", "n6"}

\* storage.config["pushover"] with the notification sink enabled
StormConfigs ==
    [enabled : {TRUE}, maintenance_mode : BOOLEAN, throttling_enabled : BOOLEAN,
     alert_threshold : {AlertThreshold}, alert_window : {AlertWindow},
     has_credentials : BOOLEAN]

InitStorm ==
    /\ now = StartTime
    /\ db_group = [enabled |-> TRUE, interval |-> GroupInterval,
                   max_retries |-> GroupMaxRetries,
                   monitor_ping |-> TRUE, monitor_snmp |-> FALSE]
    /\ db_nodes = [n \in StormNodeIds |-> NodeRow(None, None, None, None)]
    /\ db_metrics = << >>
    /\ pushover_config \in StormConfigs
    /\ last_ping_time = [n \in StormNodeIds |-> StartTime]
    /\ latest_results = << >>
    /\ node_states = [n \in StormNodeIds |-> [NewNodeState EXCEPT !.status = "DOWN"]]
    /\ alert_states = << >>
    /\ notification_cooldown = << >>
    /\ state_lock = None
    /\ tasks = [n \in NodeIds |-> NoTask]
    /\ down_tasks = [n \in StormNodeIds |-> 1]
    /\ lastTick = NoTick
    /\ alert_history = << >>
    /\ last_storm_alert_time = 0
    /\ pushover_sent = << >>
    /\ sample_no = 0
    /\ previous_values = << >>
    /\ metric_result = None
    /\ config_file = [exists |-> TRUE, parses |-> TRUE, data |-> << >>]
    /\ storage_config = DefaultConfig
    /\ use_influx = FALSE
    /\ running = TRUE
    /\ loop_task = "running"
    /\ pushover_ok = TRUE
    /\ storage_ok = TRUE
    /\ log_file = << >>
    /\ file_lock = None
    /\ writers = << >>
    /\ lock_order = << >>

\* time.time() between two _send_down_alert tasks
Elapse(step, horizon) ==
    /\ now + step <= StartTime + horizon
    /\ now' = now + step
    /\ UNCHANGED <<dbVars, mgrVars, procVars, tasks, down_tasks, lastTick, alertVars, sample_no,
                   rateVars, storageVars, loopVars, sinkVars, logVars>>

NextStorm ==
    \/ Elapse(StormStep, StormHorizon)
    \/ \E n \in StormNodeIds : SendDownAlert(n)

SpecStorm == InitStorm /\ [][NextStorm]_vars

\* Every _send_down_alert task has run.
AllAlertsRun == \A n \in DOMAIN down_tasks : down_tasks[n] = 0

Throttled ==
    /\ pushover_config.throttling_enabled
    /\ pushover_config.has_credentials
    /\ ~pushover_config.maintenance_mode

\* C17: with throttling on, threshold 5 and window 60, six nodes going DOWN inside the
\* window on an empty history produce five individual notifications for five distinct
\* nodes, then one storm notification and no individual one for the sixth.
C17_SixthIsStorm ==
    Throttled /\ AllAlertsRun /\ now - StartTime < AlertWindow
        => /\ Len(pushover_sent) = AlertThreshold + 1
           /\ \A i \in 1..AlertThreshold : pushover_sent[i].title = "down"
           /\ Cardinality({pushover_sent[i].about : i \in 1..AlertThreshold})
                  = AlertThreshold
           /\ pushover_sent[AlertThreshold + 1].title = "storm"
           /\ Len(alert_history) = AlertThreshold

\* The six alerts have run, the last of them StormStep seconds after the first.
C17_Witness ==
    /\ Throttled /\ AllAlertsRun
    /\ now = StartTime + StormStep
    /\ pushover_sent[1].at = StartTime
    /\ pushover_sent[AlertThreshold + 1] = StormNotification

\* C18: in maintenance mode no DOWN notification is sent, and every suppressed alert
\* still leaves its timestamp in the alert history.
C18_MaintenanceKeepsHistory ==
    /\ pushover_config.maintenance_mode
    /\ pushover_config.throttling_enabled
    /\ now - StartTime < AlertWindow
    => /\ pushover_sent = << >>
       /\ Len(alert_history) = Cardinality({n \in DOMAIN down_tasks : down_tasks[n] = 0})

(***************************************************************************)
(* The metric processor with the notification sink enabled: one gauge      *)
(* binding (gt, warning 80, critical 90) of one node, fed with samples     *)
(* while the clock moves in steps of MetricStep.                           *)
(***************************************************************************)
MetricStep == 30
MetricHorizon == 120

S3Samples == <<50, 85, 95, 86, 78>>
S3Levels == <<"null", "WARNING", "CRITICAL", "CRITICAL", "null">>

SampleValues == {S3Samples[i] : i \in DOMAIN S3Samples}

InitMetric ==
    /\ now = StartTime
    /\ db_group = [enabled |-> TRUE, interval |-> GroupInterval,
                   max_retries |-> GroupMaxRetries,
                   monitor_ping |-> TRUE, monitor_snmp |-> FALSE]
    /\ db_nodes = [n \in SingleNode |-> NodeRow(None, None, None, None)]
    /\ db_metrics = [m \in SingleMetric |-> GaugeBinding("n1")]
    /\ pushover_config = [enabled |-> TRUE, has_credentials |-> TRUE]
    /\ InitRuntime

NextMetric ==
    \/ Elapse(MetricStep, MetricHorizon)
    \/ \E m \in SingleMetric, v \in SampleValues : ProcessMetric(m, v)
    \/ NotificationReturns
    \/ \E n \in SingleNode, e \in BOOLEAN : UpdateNode(n, e)

SpecMetric == InitMetric /\ [][NextMetric]_vars

\* Scenario S3: the samples of S3Samples arrive in order at the binding, no alert
\* persisted from an earlier run.
InitS3 == InitMetric /\ alert_states = << >>

FeedS3 ==
    /\ sample_no < Len(S3Samples)
    /\ CheckThresholds("m1", S3Samples[sample_no + 1])
    /\ sample_no' = sample_no + 1
    /\ UNCHANGED <<rateVars, storageVars, loopVars, sinkVars, logVars>>

NextS3 ==
    \/ Elapse(MetricStep, MetricHorizon)
    \/ FeedS3
    \/ NotificationReturns

SpecS3 == InitS3 /\ [][NextS3]_vars

Titles(sent) == [i \in 1..Len(sent) |-> sent[i].title]

\* C19: the samples 50, 85, 95, 86, 78 leave the binding at the levels null, WARNING,
\* CRITICAL, CRITICAL, null in turn, and cause exactly three notifications: WARNING,
\* CRITICAL and RESOLVED.
C19_S3Notifications ==
    /\ sample_no >= 1 => Get(alert_states, "m1", "null") = S3Levels[sample_no]
    /\ sample_no = Len(S3Samples) /\ StateLockFree
          => Titles(pushover_sent) = <<"WARNING", "CRITICAL", "RESOLVED">>

Rank(status) == IF status = "DOWN" THEN 2 ELSE IF status = "PENDING" THEN 1 ELSE 0
Worse(a, b) == IF Rank(a) >= Rank(b) THEN a ELSE b

\* The reachability status the probe outcomes alone have produced: a success resets
\* failure_count to 0, and every failure from UP or PENDING leaves it at 1 or more.
ReachabilityOf(state) == IF state.failure_count = 0 THEN "UP" ELSE state.status

\* The reachability transition for one aggregated probe outcome.
ReachabilityAfter(reach, failure_count, success, max_retries) ==
    IF success THEN "UP"
    ELSE IF reach = "UP" THEN "PENDING"
    ELSE IF reach = "PENDING"
    THEN IF failure_count + 1 > max_retries THEN "DOWN" ELSE "PENDING"
    ELSE "DOWN"

\* C21: after a probed tick the snapshot reports the reachability status the probe
\* outcomes produce, replaced by the worse of it and the node's metric-alert status
\* only when reachability is UP.
C21_ReportedIsWorst ==
    [][\A n \in NodeIds :
          /\ FinishStep(n)
          /\ StatusBefore(n) \in {"UP", "PENDING", "DOWN"}
          /\ tasks[n].current_status = StatusBefore(n)
          => LET state == Get(node_states, n, NewNodeState)
                 reach == ReachabilityAfter(ReachabilityOf(state), state.failure_count,
                                            lastTick'.success, TaskMaxRetries(n))
             IN  latest_results'[n].status =
                     IF reach = "UP" THEN Worse("UP", GetNodeAlertStatus(n)) ELSE reach]_vars

(***************************************************************************)
(* Counters: one counter binding of one node, in bytes or in packets,      *)
(* sampled with values that rise, repeat and fall back while the clock     *)
(* moves second by second.                                                 *)
(***************************************************************************)
RateHorizon == 3

CounterValues == {500, 1000, 2000}
CounterUnits == {"bytes", "packets"}

CounterBinding(n, unit) ==
    [node_id |-> n, warning_threshold |-> None, critical_threshold |-> None,
     alert_condition |-> "gt", metric_source |-> "snmp", metric_type |-> "counter",
     unit |-> unit]

InitRate ==
    /\ now = StartTime
    /\ db_group = [enabled |-> TRUE, interval |-> GroupInterval,
                   max_retries |-> GroupMaxRetries,
                   monitor_ping |-> TRUE, monitor_snmp |-> FALSE]
    /\ db_nodes = [n \in SingleNode |-> NodeRow(None, None, None, None)]
    /\ \E unit \in CounterUnits :
          db_metrics = [m \in SingleMetric |-> CounterBinding("n1", unit)]
    /\ pushover_config = [enabled |-> FALSE]
    /\ InitRuntime
    /\ alert_states = << >>

NextRate ==
    \/ Advance(RateHorizon)
    \/ \E m \in SingleMetric, v \in CounterValues : ProcessMetric(m, v)

SpecRate == InitRate /\ [][NextRate]_vars

\* The sample the binding remembers before the step.
HasPrevious(m) == m \in DOMAIN previous_values

\* C22: a counter sample yields no rate when there is no previous sample, when no time
\* has passed since it, or when the value fell below it; the sample is remembered all
\* the same.
C22_NoRateStillRemembered ==
    [][\A m \in SingleMetric, v \in CounterValues :
          ProcessMetric(m, v)
             => /\ Get(previous_values', m, None) = [value |-> v, timestamp |-> now]
                /\ (\/ ~HasPrevious(m)
                    \/ now - previous_values[m].timestamp <= 0
                    \/ v < previous_values[m].value)
                      => metric_result' = None]_vars

\* A sample below the remembered one was taken and replaced it without a rate.
C22_Witness ==
    /\ HasPrevious("m1")
    /\ previous_values["m1"] = [value |-> 500, timestamp |-> StartTime + 1]
    /\ metric_result = None

\* C23: a counter sample not below the previous one and later than it yields the rate
\* (v2 - v1) / (t2 - t1), times 8 and in bps for a byte counter, never negative; 1000
\* then 2000 bytes one second apart yield 8000 bps.
C23_RateOfCounter ==
    [][\A m \in SingleMetric, v \in CounterValues :
          /\ ProcessMetric(m, v)
          /\ HasPrevious(m)
          /\ now > previous_values[m].timestamp
          /\ v >= previous_values[m].value
          => LET v1 == previous_values[m].value
                 t1 == previous_values[m].timestamp
                 bytes == db_metrics[m].unit = "bytes"
                 out == metric_result'[1]
             IN  /\ ~IsNone(metric_result')
                 /\ out.rate.num * (now - t1)
                       = (IF bytes THEN 8 ELSE 1) * (v - v1) * out.rate.den
                 /\ out.rate.den > 0 /\ out.rate.num >= 0
                 /\ out.unit = IF bytes THEN "bps" ELSE db_metrics[m].unit
                 /\ (bytes /\ v1 = 1000 /\ v = 2000 /\ now - t1 = 1)
                       => out.rate.num = 8000 * out.rate.den]_vars

\* 2000 bytes were sampled one second after 1000 bytes.
C23_Witness ==
    /\ db_metrics["m1"].unit = "bytes"
    /\ HasPrevious("m1")
    /\ previous_values["m1"] = [value |-> 2000, timestamp |-> StartTime + 1]
    /\ metric_result = Some([rate |-> [num |-> 8000, den |-> 1], unit |-> "bps"])

(***************************************************************************)
(* What a probed tick hands to the storage and to the metric processor.    *)
(***************************************************************************)
\* The protocols the coroutine of n probes with.
TaskProtocols(n) ==
    {p \in {"icmp", "snmp"} :
        \/ p = "icmp" /\ UsePing(tasks[n].node[1], tasks[n].group[1])
        \/ p = "snmp" /\ UseSnmp(tasks[n].node[1], tasks[n].group[1])}

\* C24: a probed tick writes exactly one reachability record per enabled protocol,
\* PENDING when the node's new status is PENDING, else UP or DOWN by the probe's own
\* success, whatever bindings the node has.
C24_OneRecordPerProbe ==
    [][\A n \in NodeIds :
          FinishStep(n) /\ lastTick'.node = n
             => /\ {w.protocol : w \in lastTick'.written} = TaskProtocols(n)
                /\ Cardinality(lastTick'.written) = Cardinality(TaskProtocols(n))
                /\ \A w \in lastTick'.written :
                      IF latest_results'[n].status = "PENDING"
                      THEN w.status = "PENDING"
                      ELSE w.status \in {"UP", "DOWN"}
                /\ (lastTick'.success /\ latest_results'[n].status # "PENDING"
                      => \A w \in lastTick'.written : w.status = "UP")]_vars

\* C29: when the ICMP probe of a tick succeeded, every ICMP binding of the node is
\* handed to the metric processor exactly once, also when the node has both bindings.
C29_EveryIcmpBindingOnce ==
    [][\A n \in NodeIds :
          /\ FinishStep(n) /\ lastTick'.node = n
          /\ "icmp" \in TaskProtocols(n)
          /\ lastTick'.success
          => /\ Len(lastTick'.processed) = Cardinality(IcmpMetrics(n))
             /\ {lastTick'.processed[i] : i \in 1..Len(lastTick'.processed)}
                   = IcmpMetrics(n)]_vars

(***************************************************************************)
(* Hot reload of the application configuration                             *)
(***************************************************************************)
InfluxSections ==
    {[enabled |-> TRUE, url |-> "http://influx:8086", token |-> "secret"],
     [enabled |-> TRUE, url |-> "http://influx:8086", token |-> ""],
     [enabled |-> FALSE, url |-> "http://influx:8086", token |-> "secret"]}

LoggingSections ==
    {[file_enabled |-> FALSE],
     [file_path |-> "data/beam.json", retention_lines |-> 50]}

PushoverSections ==
    {[enabled |-> TRUE, has_credentials |-> TRUE, maintenance_mode |-> TRUE],
     [enabled |-> TRUE, has_credentials |-> TRUE, priority |-> 5, alert_threshold |-> 0,
      alert_window |-> 0]}

\* an app_config with or without the named section
Section(name, sections) == {<< >>} \cup {[k \in {name} |-> s] : s \in sections}

AppConfigs ==
    {Merge(Merge(i, l), p) : i \in Section("influxdb", InfluxSections),
                             l \in Section("logging", LoggingSections),
                             p \in Section("pushover", PushoverSections)}

Unparsable == [exists |-> TRUE, parses |-> FALSE, data |-> << >>]

ConfigFiles ==
    {Unparsable,
     [exists |-> FALSE, parses |-> FALSE, data |-> << >>],
     [exists |-> TRUE, parses |-> TRUE, data |-> << >>]}
    \cup {[exists |-> TRUE, parses |-> TRUE, data |-> [app_config |-> a]] : a \in AppConfigs}

InitConfig ==
    /\ now = StartTime
    /\ db_group = [enabled |-> TRUE, interval |-> GroupInterval,
                   max_retries |-> GroupMaxRetries,
                   monitor_ping |-> TRUE, monitor_snmp |-> FALSE]
    /\ db_nodes = [n \in SingleNode |-> NodeRow(None, None, None, None)]
    /\ db_metrics = << >>
    /\ last_ping_time = << >>
    /\ latest_results = << >>
    /\ node_states = << >>
    /\ alert_states = << >>
    /\ notification_cooldown = << >>
    /\ state_lock = None
    /\ tasks = [n \in NodeIds |-> NoTask]
    /\ down_tasks = [n \in NodeIds |-> 0]
    /\ lastTick = NoTick
    /\ alert_history = << >>
    /\ last_storm_alert_time = 0
    /\ pushover_sent = << >>
    /\ sample_no = 0
    /\ previous_values = << >>
    /\ metric_result = None
    /\ config_file \in ConfigFiles
    /\ Constructed(config_file)
    /\ running = TRUE
    /\ loop_task = "running"
    /\ pushover_ok = TRUE
    /\ storage_ok = TRUE
    /\ log_file = << >>
    /\ file_lock = None
    /\ writers = << >>
    /\ lock_order = << >>

NextConfig ==
    \/ ReloadConfig
    \/ \E a \in AppConfigs : UpdateAppConfig(a)
    \/ \E file \in ConfigFiles : EditFile(file)

SpecConfig == InitConfig /\ [][NextConfig]_vars

\* C25: a reload that finds config.json unparsable leaves the active configuration
\* (sink settings, log path, retention, use of the time-series sink) as it was.
C25_FailedReloadKeepsConfig ==
    [][(ReloadConfig /\ config_file = Unparsable)
          => (storage_config' = storage_config /\ use_influx' = use_influx)]_vars

\* C26: after an update carrying a pushover section is saved and reloaded, the active
\* configuration holds that section with the saved values.
C26_PushoverReloaded ==
    [][\A a \in AppConfigs :
          (UpdateAppConfig(a) /\ config_file.exists /\ "pushover" \in DOMAIN a)
             => /\ config_file'.data["app_config"]["pushover"]
                     = ValidatedPushover(a["pushover"])
                /\ pushover_config' = config_file'.data["app_config"]["pushover"]]_vars

(***************************************************************************)
(* The storm notification from one window to the next: six                 *)
(* _send_down_alert tasks with a threshold of WindowThreshold alerts.      *)
(***************************************************************************)
WindowThreshold == 2

InitWindow ==
    /\ now = StartTime
    /\ db_group = [enabled |-> TRUE, interval |-> GroupInterval,
                   max_retries |-> GroupMaxRetries,
                   monitor_ping |-> TRUE, monitor_snmp |-> FALSE]
    /\ db_nodes = [n \in StormNodeIds |-> NodeRow(None, None, None, None)]
    /\ db_metrics = << >>
    /\ pushover_config = [enabled |-> TRUE, maintenance_mode |-> FALSE,
                          throttling_enabled |-> TRUE, alert_threshold |-> WindowThreshold,
                          alert_window |-> AlertWindow, has_credentials |-> TRUE]
    /\ last_ping_time = [n \in StormNodeIds |-> StartTime]
    /\ latest_results = << >>
    /\ node_states = [n \in StormNodeIds |-> [NewNodeState EXCEPT !.status = "DOWN"]]
    /\ alert_states = << >>
    /\ notification_cooldown = << >>
    /\ state_lock = None
    /\ tasks = [n \in NodeIds |-> NoTask]
    /\ down_tasks = [n \in StormNodeIds |-> 1]
    /\ lastTick = NoTick
    /\ alert_history = << >>
    /\ last_storm_alert_time = 0
    /\ pushover_sent = << >>
    /\ sample_no = 0
    /\ previous_values = << >>
    /\ metric_result = None
    /\ config_file = [exists |-> TRUE, parses |-> TRUE, data |-> << >>]
    /\ storage_config = DefaultConfig
    /\ use_influx = FALSE
    /\ running = TRUE
    /\ loop_task = "running"
    /\ pushover_ok = TRUE
    /\ storage_ok = TRUE
    /\ log_file = << >>
    /\ file_lock = None
    /\ writers = << >>
    /\ lock_order = << >>

SpecWindow == InitWindow /\ [][NextStorm]_vars

\* The alert of this step finds the pruned history at or above the threshold.
InStorm ==
    /\ Get(pushover_config, "throttling_enabled", FALSE)
    /\ Len(PruneHistory(alert_history, pushover_config.alert_window))
          >= pushover_config.alert_threshold

\* What a throttled alert does, given whether the storm notification is due.
ThrottledAlert(due) ==
    /\ alert_history' = PruneHistory(alert_history, pushover_config.alert_window)
    /\ IF due
       THEN /\ pushover_sent' = Append(pushover_sent, StormNotification)
            /\ last_storm_alert_time' = now
       ELSE UNCHANGED <<pushover_sent, last_storm_alert_time>>

\* C30 (as claimed): with throttling on and the history at or above the threshold, a DOWN
\* alert sends no individual notification and adds nothing to the history; the storm
\* notification is sent, and last_storm_alert set, exactly when now - last_storm_alert
\* >= window.
C30_StormAtWindow ==
    [][\A n \in StormNodeIds :
          (SendDownAlert(n) /\ InStorm)
             => ThrottledAlert(now - last_storm_alert_time >= pushover_config.alert_window)]_vars

\* C30 (amended): the same, with the storm notification sent exactly when
\* now - last_storm_alert > window; at now - last_storm_alert = window it is not sent.
C30_StormAfterWindow ==
    [][\A n \in StormNodeIds :
          (SendDownAlert(n) /\ InStorm)
             => ThrottledAlert(now - last_storm_alert_time > pushover_config.alert_window)]_vars

\* All six alerts have run: two notified at StartTime, the third raised the storm
\* notification, two more notified a window later and the sixth, throttled exactly
\* one window after the storm notification, sent nothing.
C30_Witness ==
    /\ AllAlertsRun
    /\ now = StartTime + AlertWindow
    /\ last_storm_alert_time = StartTime
    /\ alert_history = <<StartTime + AlertWindow, StartTime + AlertWindow>>
    /\ Len(pushover_sent) = 5
    /\ pushover_sent[3] = [title |-> "storm", about |-> "all", at |-> StartTime]

(***************************************************************************)
(* Nodes with no monitor enabled: n1 switches ping off and inherits the    *)
(* group's SNMP setting (off), n2 switches both off and has no retry       *)
(* budget, n3 is probed by ping.                                           *)
(***************************************************************************)
InitNoProbe ==
    /\ now = StartTime
    /\ db_group = [enabled |-> TRUE, interval |-> GroupInterval,
                   max_retries |-> GroupMaxRetries,
                   monitor_ping |-> TRUE, monitor_snmp |-> FALSE]
    /\ db_nodes = [n \in NodeIds |->
                      IF n = "n1" THEN NodeRow(Some(LoopInterval), None, Some(FALSE), None)
                      ELSE IF n = "n2"
                      THEN NodeRow(Some(LoopInterval), Some(0), Some(FALSE), Some(FALSE))
                      ELSE NodeRow(Some(LoopInterval), None, None, None)]
    /\ db_metrics = << >>
    /\ pushover_config = [enabled |-> FALSE]
    /\ InitRuntime
    /\ alert_states = << >>

NextNoProbe ==
    \/ Advance(LoopHorizon)
    \/ StartTick
    \/ \E n \in NodeIds : ProcessNodeBegin(n)
    \/ \E n \in NodeIds, ping_ok \in BOOLEAN : ProcessNodeFinish(n, ping_ok, TRUE)
    \/ \E n \in NodeIds : SendDownAlert(n)

SpecNoProbe == InitNoProbe /\ [][NextNoProbe]_vars

\* The step is a due tick of process_node(n) that found no monitor to run.
NoProbeTick(n) ==
    /\ BeginStep(n)
    /\ ~UsePing(tasks[n].node[1], tasks[n].group[1])
    /\ ~UseSnmp(tasks[n].node[1], tasks[n].group[1])
    /\ lastTick'.node = n
    /\ lastTick'.outcome = "no_probe"

\* C28: a due tick of a node with neither ping nor SNMP enabled leaves its status and
\* failure_count as they were and creates no DOWN alert, tick after tick.
C28_NoProbeIsNoOp ==
    [][\A n \in NodeIds :
          NoProbeTick(n) => /\ StatusAfter(n) = StatusBefore(n)
                            /\ CountAfter(n) = CountBefore(n)
                            /\ ~DownAlertCreated(n)]_vars

(***************************************************************************)
(* Shutdown: stop() while run_loop is iterating                            *)
(***************************************************************************)
\* MonitorManager.stop(), called once by the application's shutdown
Stop ==
    /\ loop_task = "running"
    /\ running
    /\ running' = FALSE
    /\ UNCHANGED <<now, dbVars, mgrVars, procVars, tasks, down_tasks, lastTick, alertVars,
                   sample_no, rateVars, storageVars, loop_task, sinkVars, logVars>>

\* run_loop: gather has returned or raised, the sleep is over and the loop condition is
\* found false
LoopReturn ==
    /\ loop_task = "running"
    /\ ~LoopCondition
    /\ \A n \in NodeIds : tasks[n].pc = "none"
    /\ loop_task' = "done"
    /\ UNCHANGED <<now, dbVars, mgrVars, procVars, tasks, down_tasks, lastTick, alertVars,
                   sample_no, rateVars, storageVars, running, sinkVars, logVars>>

NextStop ==
    \/ NextLoop
    \/ Stop
    \/ LoopReturn

\* The steps of the process_node coroutines, awaited by gather or abandoned by it.
ProbeStep ==
    \/ \E n \in NodeIds : ProcessNodeBegin(n)
    \/ \E n \in NodeIds, ping_ok \in BOOLEAN : ProcessNodeFinish(n, ping_ok, TRUE)
    \/ \E n \in NodeIds : ProcessNodeRaise(n, TRUE)
    \/ \E n \in NodeIds : StrayBegin(n)
    \/ \E n \in NodeIds, ping_ok \in BOOLEAN : StrayFinish(n, ping_ok, TRUE)

\* The inventory of InitLoop without n3: n1, probed by ping and SNMP, carries the two
\* ICMP bindings and n2 is probed by ping.
InitStop ==
    /\ now = StartTime
    /\ db_group = [enabled |-> TRUE, interval |-> GroupInterval,
                   max_retries |-> GroupMaxRetries,
                   monitor_ping |-> TRUE, monitor_snmp |-> FALSE]
    /\ db_nodes = [n \in {"n1", "n2"} |->
                      NodeRow(Some(LoopInterval), None, None,
                              IF n = "n1" THEN Some(TRUE) ELSE None)]
    /\ db_metrics = [m \in MetricIds |-> IcmpBinding("n1")]
    /\ pushover_config = [enabled |-> FALSE]
    /\ InitRuntime
    /\ alert_states = << >>

\* The event loop runs every ready task, and each monitor returns within its timeout.
SpecStop ==
    /\ InitStop
    /\ [][NextStop]_vars
    /\ WF_vars(ProbeStep)
    /\ WF_vars(\E n \in NodeIds : SendDownAlert(n))
    /\ WF_vars(LoopReturn)

\* The step creates the process_node coroutines of a new iteration.
TickStarts == \E n \in NodeIds : tasks[n].pc # "created" /\ tasks'[n].pc = "created"

\* C27: once stop() has been called on the running loop, no new iteration starts, and
\* run_loop returns after the process_node coroutines of the current iteration have
\* finished.
C27_StopEndsLoop ==
    /\ [][~running => ~TickStarts]_vars
    /\ [](loop_task = "done" => ~running)
    /\ (~running ~> loop_task = "done")

\* run_loop has returned after stop(), and monitors had been run.
C27_Witness ==
    /\ ~running
    /\ loop_task = "done"
    /\ lastTick.outcome = "probed"
    /\ now > StartTime

(***************************************************************************)
(* The metric processor while the Pushover API comes and goes              *)
(***************************************************************************)
\* The Pushover API starts or stops answering 200: send_notification returns
\* pushover_ok.
PushoverAvailability(ok) ==
    /\ pushover_ok # ok
    /\ pushover_ok' = ok
    /\ UNCHANGED <<now, dbVars, mgrVars, procVars, tasks, down_tasks, lastTick, alertVars,
                   sample_no, rateVars, storageVars, loopVars, storage_ok, logVars>>

NextOutage ==
    \/ NextMetric
    \/ \E ok \in BOOLEAN : PushoverAvailability(ok)

SpecOutage == InitMetric /\ [][NextOutage]_vars

\* C31: when send_notification reports failure for a metric alert or resolve
\* notification, the binding's cooldown timestamp stays as it was.
C31_FailedSendKeepsCooldown ==
    [][(NotificationReturns /\ ~pushover_ok)
          => notification_cooldown' = notification_cooldown]_vars

(***************************************************************************)
(* Recovery from CRITICAL: gauge bindings (gt) whose critical threshold    *)
(* times 0.95 is a whole number, fed with samples around it.               *)
(***************************************************************************)
HysteresisValues == {50, 76, 77, 95, 96, 100}

HysteresisBinding(n, warning, critical) ==
    [node_id |-> n, warning_threshold |-> Some(warning), critical_threshold |-> Some(critical),
     alert_condition |-> "gt", metric_source |-> "snmp", metric_type |-> "gauge",
     unit |-> "percent"]

HysteresisBindings == {HysteresisBinding("n1", 80, 100), HysteresisBinding("n1", 60, 80)}

InitHysteresis ==
    /\ now = StartTime
    /\ db_group = [enabled |-> TRUE, interval |-> GroupInterval,
                   max_retries |-> GroupMaxRetries,
                   monitor_ping |-> TRUE, monitor_snmp |-> FALSE]
    /\ db_nodes = [n \in SingleNode |-> NodeRow(None, None, None, None)]
    /\ \E b \in HysteresisBindings : db_metrics = [m \in SingleMetric |-> b]
    /\ pushover_config = [enabled |-> TRUE, has_credentials |-> TRUE]
    /\ InitRuntime

NextHysteresis ==
    \/ Elapse(MetricStep, MetricHorizon)
    \/ \E m \in SingleMetric, v \in HysteresisValues : ProcessMetric(m, v)
    \/ NotificationReturns

SpecHysteresis == InitHysteresis /\ [][NextHysteresis]_vars

\* The level a CRITICAL binding has after a sample below its critical threshold.
AfterCritical(m, v) ==
    Hysteresis(db_metrics[m], v, "CRITICAL", StrictLevel(db_metrics[m], v))

\* The step evaluates sample v for binding m, whose level was CRITICAL.
CriticalSample(m, v) ==
    /\ ProcessMetric(m, v)
    /\ Get(alert_states, m, "null") = "CRITICAL"
    /\ db_metrics[m].alert_condition = "gt"
    /\ v < db_metrics[m].critical_threshold[1]

\* C32 (as claimed): for gt, a CRITICAL binding keeps its level for every sample v with
\* 0.95 * crit <= v < crit, equality included, and leaves it only for v < 0.95 * crit.
C32_HoldsAtBoundary ==
    /\ [](\A m \in DOMAIN db_metrics, v \in HysteresisValues :
             v < db_metrics[m].critical_threshold[1]
                => (AfterCritical(m, v) = "CRITICAL"
                       <=> 100 * v >= 95 * db_metrics[m].critical_threshold[1]))
    /\ [][\A m \in SingleMetric, v \in HysteresisValues :
             CriticalSample(m, v) /\ Get(alert_states', m, "null") # "CRITICAL"
                => 100 * v < 95 * db_metrics[m].critical_threshold[1]]_vars

\* C32 (amended): for gt, a CRITICAL binding keeps its level for every sample v with
\* 0.95 * crit < v < crit and leaves it for every v <= 0.95 * crit.
C32_LeavesAtBoundary ==
    /\ [](\A m \in DOMAIN db_metrics, v \in HysteresisValues :
             v < db_metrics[m].critical_threshold[1]
                => (AfterCritical(m, v) = "CRITICAL"
                       <=> 100 * v > 95 * db_metrics[m].critical_threshold[1]))
    /\ [][\A m \in SingleMetric, v \in HysteresisValues :
             CriticalSample(m, v) /\ Get(alert_states', m, "null") # "CRITICAL"
                => 100 * v <= 95 * db_metrics[m].critical_threshold[1]]_vars

\* The binding with critical threshold 100 went from CRITICAL to WARNING: of the samples
\* only 95 = 0.95 * 100 lies between the warning threshold and 95.
C32_Witness ==
    /\ db_metrics["m1"].critical_threshold = Some(100)
    /\ Get(alert_states, "m1", "null") = "WARNING"
    /\ Titles(pushover_sent) = <<"CRITICAL", "WARNING">>

(***************************************************************************)
(* The metric processor with the notification sink switched off: the       *)
(* pushover section is missing or has enabled = False.                     *)
(***************************************************************************)
SinkOffConfigs == {<< >>, [enabled |-> FALSE, has_credentials |-> TRUE]}

InitSinkOff ==
    /\ now = StartTime
    /\ db_group = [enabled |-> TRUE, interval |-> GroupInterval,
                   max_retries |-> GroupMaxRetries,
                   monitor_ping |-> TRUE, monitor_snmp |-> FALSE]
    /\ db_nodes = [n \in SingleNode |-> NodeRow(None, None, None, None)]
    /\ db_metrics = [m \in SingleMetric |-> GaugeBinding("n1")]
    /\ pushover_config \in SinkOffConfigs
    /\ InitRuntime

NextSinkOff ==
    \/ Elapse(MetricStep, MetricHorizon)
    \/ \E m \in SingleMetric, v \in SampleValues : ProcessMetric(m, v)
    \/ FeedS3
    \/ \E n \in SingleNode, e \in BOOLEAN : UpdateNode(n, e)

SpecSinkOff == InitSinkOff /\ [][NextSinkOff]_vars

\* The step hands a sample of a binding of an enabled node to the metric processor.
SampleOfEnabledNode ==
    /\ \A n \in DOMAIN db_nodes : db_nodes[n].enabled
    /\ \/ \E m \in SingleMetric, v \in SampleValues : ProcessMetric(m, v)
       \/ FeedS3

C36_OnlyAlertLevelsStored ==
    \A m \in DOMAIN alert_states : alert_states[m] \in {"WARNING", "CRITICAL"}

\* The level _check_thresholds computes for a sample of binding m, given the level the
\* binding has now.
LevelFor(m, v) ==
    Hysteresis(db_metrics[m], v, Get(alert_states, m, "null"), StrictLevel(db_metrics[m], v))

\* The step processes a sample of binding m, of an enabled node, that changes the
\* binding's level while the binding's notification cooldown is running.
ChangeInCooldown(m, v) ==
    /\ ProcessMetric(m, v)
    /\ db_nodes[db_metrics[m].node_id].enabled
    /\ LevelFor(m, v) # Get(alert_states, m, "null")
    /\ now - Get(notification_cooldown, m, 0) < CooldownSeconds

DownSentAt == LET down == SelectSeq(pushover_sent, LAMBDA msg : msg.title = "down")
              IN  [i \in 1..Len(down) |-> down[i].at]

\* The number of entries of the sequence of times ts in the span [t, t + window)
InSpan(ts, t, window) == Cardinality({i \in 1..Len(ts) : t <= ts[i] /\ ts[i] - t < window})

\* C39: with throttling enabled the alert history never holds more than alert_threshold
\* timestamps, in one alert_window or at all, and no span of alert_window seconds
\* [t, t + alert_window) sees more than alert_threshold individual DOWN notifications.
C39_WindowHoldsThreshold ==
    Get(pushover_config, "throttling_enabled", FALSE)
       => /\ \A i \in 1..Len(alert_history) :
                InSpan(alert_history, alert_history[i], pushover_config.alert_window)
                    <= pushover_config.alert_threshold
          /\ Len(alert_history) <= pushover_config.alert_threshold
          /\ \A i \in 1..Len(DownSentAt) :
                InSpan(DownSentAt, DownSentAt[i], pushover_config.alert_window)
                    <= pushover_config.alert_threshold

\* Two alerts were notified at StartTime, later ones in that window were throttled, and
\* once the window had passed two more were notified: four DOWN notifications in all,
\* never more than alert_threshold of them in one window.
C39_Witness ==
    /\ DownSentAt = <<StartTime, StartTime, StartTime + AlertWindow, StartTime + AlertWindow>>
    /\ Len(pushover_sent) > Len(DownSentAt)
    /\ Len(alert_history) = WindowThreshold

\* The step completes a process_node coroutine of node n that was waiting for its
\* monitors when remove_node(n) ran.
FinishesRemoved(n) ==
    /\ tasks[n].pc = "probing"
    /\ ~IsNone(tasks[n].detached)
    /\ n \notin DOMAIN db_nodes
    /\ tasks'[n].pc = "none"

\* C38: when remove_node(n) ran while a process_node coroutine of n was suspended, the
\* node is still absent from latest_results, last_ping_time and node_states after that
\* coroutine has completed.
C38_RemovedStaysAbsent ==
    [][\A n \in NodeIds :
          FinishesRemoved(n)
             => /\ n \notin DOMAIN latest_results'
                /\ n \notin DOMAIN last_ping_time'
                /\ n \notin DOMAIN node_states']_vars

\* The step completes a failed probe of node n, and the tick completed before it was a
\* successful probe of n.
FirstFailureAfterSuccess(n) ==
    /\ lastTick.node = n /\ lastTick.outcome = "probed" /\ lastTick.success
    /\ lastTick'.node = n /\ lastTick'.outcome = "probed" /\ ~lastTick'.success
    /\ tasks[n].pc = "probing" /\ tasks'[n].pc = "none"
    /\ n \in DOMAIN node_states /\ n \in DOMAIN node_states'

\* C37: the first failed probe after a successful one neither takes the node to DOWN
\* nor creates a DOWN notification, for every max_retries >= 0 and whatever alert
\* levels the node's bindings have.
C37_FirstFailureNeverDown ==
    [][\A n \in NodeIds :
          FirstFailureAfterSuccess(n)
             => /\ ~(node_states[n].status # "DOWN" /\ node_states'[n].status = "DOWN")
                /\ ~lastTick'.enqueued
                /\ down_tasks'[n] = down_tasks[n]]_vars

(***************************************************************************)
(* Storage.write_monitor_result, the log file part: LogWriterIds are the   *)
(* coroutines that call it; each call is cut at its awaits (the lock, the  *)
(* append, the read and the rewrite of the file).                          *)
(***************************************************************************)
RetentionLines == 2    \* logging.retention_lines
MaxWrites == 4         \* write_monitor_result calls explored

LogWriterIds == {"w1", "w2"}

\* A variant of the file lock that never makes a caller wait.
FileLockIgnored == TRUE

\* async with self._file_lock: a caller enters when no other call holds the lock
FileLockFree == IsNone(file_lock)

\* write_monitor_result calls made so far
CallsStarted ==
    Len(lock_order) + Cardinality({w \in DOMAIN writers : writers[w].pc = "waiting"})

\* lines[-max_lines:]
LastLines(lines, max_lines) ==
    IF Len(lines) > max_lines
    THEN SubSeq(lines, Len(lines) - max_lines + 1, Len(lines))
    ELSE lines

\* what write_monitor_result leaves alone
LogFrame ==
    UNCHANGED <<now, dbVars, mgrVars, procVars, tasks, down_tasks, lastTick, alertVars,
                sample_no, rateVars, storageVars, loopVars, sinkVars>>

\* write_monitor_result up to the lock: the entry is built from the call's arguments
\* (no is the number of the call, waited whether another call held the lock then)
WriteCall(w) ==
    /\ w \notin DOMAIN writers
    /\ CallsStarted < MaxWrites
    /\ storage_config.logging.file_enabled
    /\ writers' = Put(writers, w,
                      [pc |-> "waiting",
                       entry |-> [writer |-> w, no |-> CallsStarted + 1,
                                  waited |-> ~IsNone(file_lock)],
                       max_lines |-> Get(storage_config.logging, "retention_lines", 200),
                       lines |-> << >>])
    /\ UNCHANGED <<log_file, file_lock, lock_order>>
    /\ LogFrame

\* the call enters "async with self._file_lock"
WriteAcquire(w) ==
    /\ w \in DOMAIN writers /\ writers[w].pc = "waiting"
    /\ FileLockFree
    /\ file_lock' = Some(w)
    /\ lock_order' = Append(lock_order, writers[w].entry)
    /\ writers' = [writers EXCEPT ![w].pc = "appending"]
    /\ UNCHANGED log_file
    /\ LogFrame

\* "Write new entry": the line is appended; when that fails the call logs and returns
WriteAppend(w) ==
    /\ w \in DOMAIN writers /\ writers[w].pc = "appending"
    /\ IF storage_ok
       THEN /\ log_file' = Append(log_file, writers[w].entry)
            /\ writers' = [writers EXCEPT ![w].pc = "reading"]
            /\ UNCHANGED file_lock
       ELSE /\ writers' = Del(writers, w)
            /\ file_lock' = None
            /\ UNCHANGED log_file
    /\ UNCHANGED lock_order
    /\ LogFrame

\* "Log rotation": lines = await f.readlines()
WriteRead(w) ==
    /\ w \in DOMAIN writers /\ writers[w].pc = "reading"
    /\ writers' = [writers EXCEPT ![w].pc = "rotating", ![w].lines = log_file]
    /\ UNCHANGED <<log_file, file_lock, lock_order>>
    /\ LogFrame

\* the file is rewritten with the last max_lines lines if it had more, and the call
\* leaves the lock and returns
WriteRotate(w) ==
    /\ w \in DOMAIN writers /\ writers[w].pc = "rotating"
    /\ log_file' = IF Len(writers[w].lines) > writers[w].max_lines
                   THEN LastLines(writers[w].lines, writers[w].max_lines)
                   ELSE log_file
    /\ file_lock' = None
    /\ writers' = Del(writers, w)
    /\ UNCHANGED lock_order
    /\ LogFrame

InitLog ==
    /\ now = StartTime
    /\ db_group = [enabled |-> TRUE, interval |-> GroupInterval,
                   max_retries |-> GroupMaxRetries,
                   monitor_ping |-> TRUE, monitor_snmp |-> FALSE]
    /\ db_nodes = [n \in SingleNode |-> NodeRow(None, None, None, None)]
    /\ db_metrics = << >>
    /\ pushover_config = << >>
    /\ last_ping_time = << >>
    /\ latest_results = << >>
    /\ node_states = << >>
    /\ alert_states = << >>
    /\ notification_cooldown = << >>
    /\ state_lock = None
    /\ tasks = [n \in NodeIds |-> NoTask]
    /\ down_tasks = [n \in NodeIds |-> 0]
    /\ lastTick = NoTick
    /\ alert_history = << >>
    /\ last_storm_alert_time = 0
    /\ pushover_sent = << >>
    /\ sample_no = 0
    /\ previous_values = << >>
    /\ metric_result = None
    /\ config_file = [exists |-> TRUE, parses |-> TRUE, data |-> << >>]
    /\ storage_config = [DefaultConfig EXCEPT !.logging.retention_lines = RetentionLines]
    /\ use_influx = FALSE
    /\ running = TRUE
    /\ loop_task = "running"
    /\ pushover_ok = TRUE
    /\ storage_ok = TRUE
    /\ log_file = << >>
    /\ file_lock = None
    /\ writers = << >>
    /\ lock_order = << >>

NextLog ==
    \/ \E w \in LogWriterIds : WriteCall(w)
    \/ \E w \in LogWriterIds : WriteAcquire(w)
    \/ \E w \in LogWriterIds : WriteAppend(w)
    \/ \E w \in LogWriterIds : WriteRead(w)
    \/ \E w \in LogWriterIds : WriteRotate(w)

SpecLog == InitLog /\ [][NextLog]_vars

\* C34: once every write_monitor_result call made so far has completed, the log file
\* holds the entries of the most recent min(n, total) calls, whole and in the order the
\* calls acquired the file lock, and so at most n = retention_lines lines.
C34_LogHoldsLastRecords ==
    /\ writers = << >>
          => /\ log_file = LastLines(lock_order, storage_config.logging.retention_lines)
             /\ Len(log_file) <= storage_config.logging.retention_lines
    /\ \A i \in 1..Len(log_file) : \E k \in 1..Len(lock_order) : log_file[i] = lock_order[k]

\* MaxWrites calls have completed, more than the file retains; the calls of the two
\* coroutines overlapped, the last one waiting for the lock while the other held it.
C34_Witness ==
    /\ writers = << >>
    /\ Len(lock_order) = MaxWrites
    /\ Len(log_file) = RetentionLines
    /\ log_file[RetentionLines].waited
    /\ log_file[1].writer # log_file[RetentionLines].writer

(***************************************************************************)
(* The monitor loop while the sinks of write_monitor_result fail: the      *)
(* InfluxDB write or the append to the log file raises inside the call.    *)
(***************************************************************************)
\* The time-series store and the log file become unwritable, or writable again.
StorageAvailability(ok) ==
    /\ storage_ok # ok
    /\ storage_ok' = ok
    /\ UNCHANGED <<now, dbVars, mgrVars, procVars, tasks, down_tasks, lastTick, alertVars,
                   sample_no, rateVars, storageVars, loopVars, pushover_ok, logVars>>

NextSinkFail ==
    \/ NextLoop
    \/ \E ok \in BOOLEAN : StorageAvailability(ok)

SpecSinkFail == InitStop /\ [][NextSinkFail]_vars

\* The step completes the probe of node n that the running iteration started.
CompletesProbe(n) ==
    /\ tasks[n].pc = "probing"
    /\ tasks'[n].pc = "none"
    /\ lastTick'.node = n /\ lastTick'.outcome = "probed"
    /\ n \in DOMAIN node_states

\* The reachability transition of a completed probe, from the status read when the tick
\* began and the outcome of the probe.
TransitionApplied(n) ==
    LET cs == tasks[n].current_status
        fc == node_states[n].failure_count
        max_retries == MaxRetriesOf(tasks[n].node[1], tasks[n].group[1])
        after == node_states'[n]
        exceeded == fc + 1 > max_retries
    IN  /\ lastTick'.success
              => after.status = "UP" /\ after.failure_count = 0 /\ ~lastTick'.enqueued
        /\ ~lastTick'.success /\ cs = "UP"
              => after.status = "PENDING" /\ after.failure_count = 1 /\ ~lastTick'.enqueued
        /\ ~lastTick'.success /\ cs = "PENDING"
              => /\ after.failure_count = fc + 1
                 /\ after.status = IF exceeded THEN "DOWN" ELSE "PENDING"
                 /\ lastTick'.enqueued = exceeded
        /\ ~lastTick'.success /\ cs = "DOWN"
              => after.status = "DOWN" /\ after.failure_count = fc /\ ~lastTick'.enqueued
        /\ down_tasks' = IF lastTick'.enqueued
                         THEN [down_tasks EXCEPT ![n] = @ + 1] ELSE down_tasks
        /\ n \in DOMAIN latest_results' /\ latest_results'[n].status = after.status

\* The tick goes on after the writes: every monitor result of the node was handed to
\* write_monitor_result, and the coroutines of the other nodes are left as they were.
TickContinues(n) ==
    /\ {rec.protocol : rec \in lastTick'.written}
          = {p \in {"icmp", "snmp"} :
                \/ p = "icmp" /\ UsePing(tasks[n].node[1], tasks[n].group[1])
                \/ p = "snmp" /\ UseSnmp(tasks[n].node[1], tasks[n].group[1])}
    /\ \A k \in NodeIds \ {n} : tasks'[k] = tasks[k]

====
